---- MODULE Spec2Model ----
(***************************************************************************)
(* Model of the circuit breaker of rubyist/circuitbreaker, package circuit *)
(* (type Breaker, src/window.go lines 449-745).                            *)
(*                                                                         *)
(* Time is counted in units of the initial back-off interval.  Every       *)
(* goroutine that uses the breaker is a thread with a program counter; a   *)
(* step of a thread is one block of the source between two points at which *)
(* another goroutine can observe or change the shared fields.              *)
(*                                                                         *)
(* The subscriber's channels (Breaker.Subscribe), the window of buckets    *)
(* (src/window.go lines 1-312) and the Panel (src/panel.go) are modelled   *)
(* beside the breaker, each with a specification of its own.               *)
(***************************************************************************)
EXTENDS Integers, Sequences, FiniteSets, TLC

\* ---------------------------------------------------------------- bounds
MaxTime == 4
MaxCount == 2
MaxRetries == 2
MaxEvents == 4
MaxOverflow == 2
MaxNames == 2
MaxWait == 2
\* goroutines that Add starts on one panel
MaxGoroutines == 2

\* ------------------------------------------------------------- constants
Threads == {1, 2}
NoTime == -1
Stop == -1
InitialInterval == 1
Capacity == 100
WindowBuckets == 2
BucketTime == 1
NoOp == 0
ResetTimeout == 1
NoTimeout == 0
Breakers == {1, 2}
Names == {"a", "b"}
AskNames == Names \cup {"missing"}

\* what circuit() returns: nil or the service's error
OpResults == {"nil", "opErr"}

Policies == {[kind |-> "none", n |-> 0],
             [kind |-> "threshold", n |-> 1],
             [kind |-> "threshold", n |-> 2],
             [kind |-> "consecutive", n |-> 2]}

\* the policy used where several goroutines share the breaker
PoliciesConc == {[kind |-> "threshold", n |-> 1]}

\* NewRateBreaker(rate, minSamples) with rate = num / den
RatePolicies == {[kind |-> "rate", n |-> 2, num |-> 1, den |-> 2],
                 [kind |-> "rate", n |-> 1, num |-> 1, den |-> 1]}

\* the policies of the constructors: none, threshold, consecutive, rate
PoliciesSeq == Policies \cup RatePolicies

\* the threshold policies
ThresholdPolicies == {p \in Policies : p.kind = "threshold"}

VARIABLES
  tripped, broken, failures, consecFailures, successes,
  lastFailure, halfOpens, nextBackOff, boIdx, policy,
  now, pc, st, sst, err, bg, last, obs, hist, bus, window, panel

shared == <<tripped, broken, failures, consecFailures, successes,
            lastFailure, halfOpens, nextBackOff, boIdx>>
vars == <<tripped, broken, failures, consecFailures, successes,
          lastFailure, halfOpens, nextBackOff, boIdx, policy,
          now, pc, st, sst, err, bg, last, obs, hist, bus, window, panel>>

\* ------------------------------------------------------ back-off policy
\* The i-th interval the policy hands out since its last Reset; once the
\* policy gives up it answers Stop.
BackOffAt(i) == IF i > MaxRetries THEN Stop ELSE InitialInterval * i

BackOffNextIdx(i) == IF i > MaxRetries THEN i ELSE i + 1

\* ------------------------------------------------------------- accessors
Tripped == tripped = 1

Failures == failures

ConsecFailures == consecFailures

Successes == successes

\* ErrorRate(): float64(failures) / float64(failures + successes), as the
\* fraction num / den; in float64 arithmetic 0 / 0 is NaN, which is the
\* fraction with den = 0.
ErrorRate == [num |-> Failures, den |-> Failures + Successes]

\* window.ErrorRate() over buckets holding f failures among total samples:
\* 0.0 when total == 0
WindowErrorRate(f, total) ==
  IF total = 0 THEN [num |-> 0, den |-> 1] ELSE [num |-> f, den |-> total]

\* the float64 x is 0.0
ZeroRate(x) == x.den # 0 /\ x.num = 0

RateGt(x, num, den) == x.den # 0 /\ x.num * den > num * x.den

\* x >= num / den in float64 arithmetic: a comparison with NaN is false
RateGe(x, num, den) == x.den # 0 /\ x.num * den >= num * x.den

ShouldTripAtLeast(f, c) ==
  CASE policy.kind = "none" -> FALSE
    [] policy.kind = "threshold" -> f >= policy.n
    [] policy.kind = "consecutive" -> c >= policy.n
    [] policy.kind = "rate" ->
         f + Successes >= policy.n /\ RateGe(ErrorRate, policy.num, policy.den)

\* ShouldTrip, evaluated on the counters f (failures) and c (consecFailures)
ShouldTrip(f, c) ==
  CASE policy.kind = "none" -> FALSE
    [] policy.kind = "threshold" -> f = policy.n
    [] policy.kind = "consecutive" -> c = policy.n
    [] policy.kind = "rate" ->
         f + Successes >= policy.n /\ RateGe(ErrorRate, policy.num, policy.den)

\* ------------------------------------------------------------ state read
ElapsedGe(nbo) == now - lastFailure >= nbo

\* since > nbo, with since = time.Since(lastFailure())
Elapsed(nbo) == now - lastFailure > nbo

CasHalfOpensAlways == TRUE

\* atomic.CompareAndSwapInt64(&cb.halfOpens, 0, 1) succeeds
CasHalfOpens == halfOpens = 0

StateWithNoBroken(nbo) ==
  IF tripped = 1
    THEN IF Elapsed(nbo)
           THEN IF CasHalfOpens THEN "halfopen" ELSE "open"
           ELSE "open"
    ELSE "closed"

\* The value state() returns when it runs on the current fields with
\* cb.nextBackOff = nbo.
StateWith(nbo) ==
  IF tripped = 1
    THEN IF broken = 1 THEN "open"
         ELSE IF Elapsed(nbo)
                THEN IF CasHalfOpens THEN "halfopen" ELSE "open"
                ELSE "open"
    ELSE "closed"

StateRead == StateWith(nextBackOff)

\* The fields state() leaves behind: the CAS on halfOpens and the advance of
\* the back-off when it answers halfopen.
StateEffect(s, nbo, idx) ==
  IF s = "halfopen"
    THEN /\ halfOpens' = 1
         /\ nextBackOff' = BackOffAt(idx)
         /\ boIdx' = BackOffNextIdx(idx)
    ELSE /\ halfOpens' = halfOpens
         /\ nextBackOff' = nbo
         /\ boIdx' = idx

AdmitUnlessHalfOpen(s) == s # "halfopen"

\* Call: if state == open { return ErrBreakerOpen }
Admit(s) == s # "open"

ClearLatchNever(s) == halfOpens

\* Call: if state == halfopen { atomic.StoreInt64(&cb.halfOpens, 0) }
ClearLatch(s) == IF s = "halfopen" THEN 0 ELSE halfOpens

Idle(t) == pc[t] = "idle"

Budget == failures < MaxCount /\ successes < MaxCount

\* ------------------------------------------------------------- observers
\* last: the step taken last, the events it sent, what it returned (r) and
\* the state the operation had read (s).
\* obs: where a single caller stands in the probe cycle:
\*   reset       Reset() just returned
\*   reset_trip  Reset(); Trip() just returned
\*   admitting   Ready() has made a half-open read and has not returned yet
\*   ready       Ready() answered true on a half-open read
\*   probe       a Call was admitted on a half-open read and is running
\*   failed      the admitted probe was recorded as a failure
\*   passed      the admitted Call probe was recorded as a success
ObsNext(a, r, s) ==
  CASE obs = "off" -> "off"
    [] obs # "off" /\ a = "Reset" -> "reset"
    [] obs # "off" /\ a = "Trip" -> IF obs = "reset" THEN "reset_trip" ELSE "none"
    [] obs # "off" /\ a = "Break" -> "none"
    [] obs # "off" /\ a = "ReadyBegin" -> IF s = "halfopen" THEN "admitting" ELSE obs
    [] obs # "off" /\ a = "ReadyRelease" -> "ready"
    [] obs # "off" /\ a = "CallBegin" ->
         IF s = "halfopen" THEN "probe"
         ELSE IF s = "open" \/ obs = "passed" THEN obs ELSE "none"
    [] obs # "off" /\ a = "FailBegin" -> IF obs = "ready" THEN "ready" ELSE "none"
    [] obs # "off" /\ a = "SuccessBegin" -> "none"
    [] obs # "off" /\ a = "FailTrip" ->
         IF obs \in {"ready", "probe"} THEN "failed" ELSE "none"
    [] obs # "off" /\ a = "SuccessEnd" ->
         IF obs \in {"probe", "passed"} THEN "passed" ELSE "none"
    [] OTHER -> obs

\* hist: what the callers have done since the last Reset(), counted apart
\* from the fields of the breaker (kept only where hist.on is set):
\*   fails  Fail() calls begun
\*   done   Fail() calls that have returned
\*   row    Fail() calls begun since the last Success() returned
\*   trips  Tripped events sent
HistNext(a, ev) ==
  LET tr == IF \E i \in DOMAIN ev : ev[i] = "Tripped" THEN 1 ELSE 0
      rs == \E i \in DOMAIN ev : ev[i] = "Reset"
  IN CASE ~hist.on -> hist
       [] hist.on /\ rs ->
            [on |-> TRUE, fails |-> 0, done |-> 0, row |-> 0, trips |-> 0]
       [] hist.on /\ ~rs /\ a \in {"FailBegin", "CallFail"} ->
            [hist EXCEPT !.fails = @ + 1, !.row = @ + 1]
       [] hist.on /\ ~rs /\ a = "FailTrip" ->
            [hist EXCEPT !.done = @ + 1, !.trips = @ + tr]
       [] hist.on /\ ~rs /\ a = "SuccessEnd" -> [hist EXCEPT !.row = 0]
       [] OTHER -> [hist EXCEPT !.trips = @ + tr]

\* --------------------------------------------------------------- events
\* bus: the subscriber of the breaker, if there is one (bus.on):
\*   fpc     where the goroutine started by Subscribe() stands:
\*             recv    for v := range eventReader
\*             select  select { case output <- v: ... default: ... }
\*             drop    <-output
\*             put     output <- v
\*   v       the event that goroutine holds
\*   output  the buffered channel Subscribe() returned
\*   got     the events the subscriber has received and kept
\*   read    the subscriber has received from output
\*   n       the events sent to eventReader so far (each carries its number)
\*   max     no more than max events are sent
NoEvent == [e |-> "none", id |-> 0]

\* cb.eventReceivers with the goroutines that use it: pcs is the statement
\* each goroutine is about to run, loaded the slice it has read, returned
\* the goroutines whose Subscribe() has returned (a goroutine's channel is
\* named by the goroutine), due the subscribers that had returned when the
\* sendEvent in progress began, inbox the number of events sent into each
\* subscriber's eventReader, sent the number of sendEvent calls begun.  With
\* at most two subscriptions every append allocates a new array.
NewReceivers ==
  [on |-> TRUE,
   pcs |-> [t \in Threads |-> "idle"],
   eventReceivers |-> <<>>,
   loaded |-> [t \in Threads |-> <<>>],
   returned |-> {},
   due |-> [t \in Threads |-> {}],
   inbox |-> [t \in Threads |-> 0],
   sent |-> 0]

\* no goroutine subscribes beside another
ReceiversOff == [on |-> FALSE]

\* the channels of a slice of receivers
Receivers(q) == {q[i] : i \in 1..Len(q)}

BusOff ==
  [on |-> FALSE, fpc |-> "recv", v |-> NoEvent, output |-> <<>>, got |-> <<>>,
   read |-> FALSE, n |-> 0, max |-> 0, rcv |-> ReceiversOff]

\* nobody subscribes: cb.eventReceivers stays empty
BusNone == [on |-> FALSE]

\* the events on their way to the subscriber and those it has kept, oldest
\* first
Pipeline ==
  bus.got \o bus.output \o (IF bus.v = NoEvent THEN <<>> ELSE <<bus.v>>)

\* sendEvent(event): receiver <- event for the receivers of cb.eventReceivers;
\* eventReader is unbuffered, so the send waits for the subscriber's goroutine
\* to stand at its receive.  An operation sends at most one event.
SendEvent(ev) ==
  IF ~bus.on \/ ev = <<>>
    THEN bus' = bus
    ELSE /\ bus.fpc = "recv"
         /\ bus.n < bus.max
         /\ bus' = [bus EXCEPT !.fpc = "select",
                               !.v = [e |-> ev[1], id |-> bus.n + 1],
                               !.n = bus.n + 1]

Mark(a, t, ev, r, s) ==
  /\ last' = [a |-> a, t |-> t, ev |-> ev, r |-> r, s |-> s]
  /\ obs' = ObsNext(a, r, s)
  /\ hist' = HistNext(a, ev)
  /\ SendEvent(ev)
  /\ UNCHANGED <<window, panel>>

\* a step of the subscriber or of its goroutine
MarkBus(a) ==
  /\ last' = [a |-> a, t |-> 0, ev |-> <<>>, r |-> "none", s |-> "none"]
  /\ UNCHANGED <<obs, hist, window, panel>>

\* a step of a window or of a panel
MarkOther(a, r) ==
  /\ last' = [a |-> a, t |-> 0, ev |-> <<>>, r |-> r, s |-> "none"]
  /\ UNCHANGED <<obs, hist, bus>>

\* ---------------------------------------------------------------- window
\* bucket: counts of failures and successes
NewBucket == [failure |-> 0, success |-> 0]

BucketFailBoth(b) == [failure |-> b.failure + 1, success |-> b.success + 1]

BucketFail(b) == [b EXCEPT !.failure = @ + 1]

BucketSuccess(b) == [b EXCEPT !.success = @ + 1]

\* A window used by several goroutines: pcs is the statement each goroutine
\* is about to run, kind what it records or sums ("failure" or "success"),
\* at the bucket index it has loaded or the bucket its loop is at, acc the
\* sum of its loop so far, lo the number of calls of that kind that had
\* returned when its sum began; run and ridx are the statement and the idx of the goroutine of
\* Run; begun and done count the Fail and Success calls begun and returned,
\* rots the buckets moved on to.
NewConc ==
  [on |-> TRUE,
   pcs |-> [t \in Threads |-> "idle"],
   kind |-> [t \in Threads |-> "none"],
   at |-> [t \in Threads |-> 0],
   acc |-> [t \in Threads |-> 0],
   lo |-> [t \in Threads |-> 0],
   run |-> "wait", ridx |-> 0,
   begun |-> [failure |-> 0, success |-> 0],
   done |-> [failure |-> 0, success |-> 0],
   rots |-> 0]

\* one goroutine uses the window
ConcOff == [on |-> FALSE]

\* No window: the state of the specifications that use none.
WindowOff == [mode |-> "off"]

\* newWindow: mode "lazy" is the window whose Fail and Success move on to the
\* next bucket themselves (getLatestBucket), mode "ticker" the one whose
\* goroutine does (Run).  tick is the ticker's channel, which holds one tick.
\* lastOp, fs, ss and rot observe: the time of the last Fail or Success, the
\* Fail and Success calls since newWindow or the last Reset, and whether a
\* bucket was moved on to since.
NewWindow(m) ==
  [mode |-> m, buckets |-> [i \in 1..WindowBuckets |-> NewBucket], idx |-> 1,
   lastAccess |-> 0, tick |-> 0, lastOp |-> 0, fs |-> 0, ss |-> 0,
   rot |-> FALSE, cc |-> ConcOff]

SameIdx(i) == i

\* w.buckets.Next() / (idx + 1) % len(w.buckets)
NextIdx(i) == (i % WindowBuckets) + 1

\* move on to the next bucket and reset it
Rotate(w) ==
  [w EXCEPT !.idx = NextIdx(w.idx), !.buckets[NextIdx(w.idx)] = NewBucket,
            !.rot = TRUE]

\* getLatestBucket: one bucket further if more than bucketTime has passed
\* since lastAccess, however much more.
GetLatestBucket(w, t) ==
  IF t - w.lastAccess > BucketTime
    THEN [Rotate(w) EXCEPT !.lastAccess = t]
    ELSE w

\* the window with its current bucket at hand, as Fail and Success find it
Current(w, t) == IF w.mode = "lazy" THEN GetLatestBucket(w, t) ELSE w

RECURSIVE SumFailures(_, _)
SumFailures(bs, n) ==
  IF n = 0 THEN 0 ELSE bs[n].failure + SumFailures(bs, n - 1)

RECURSIVE SumSuccesses(_, _)
SumSuccesses(bs, n) ==
  IF n = 0 THEN 0 ELSE bs[n].success + SumSuccesses(bs, n - 1)

WindowFailures(w) == SumFailures(w.buckets, Len(w.buckets))

WindowSuccesses(w) == SumSuccesses(w.buckets, Len(w.buckets))

\* ----------------------------------------------------------------- panel
EmptyMap == [n \in {} |-> NoOp]

EventKinds == {"Tripped", "Reset", "Fail", "Ready"}

\* sync.RWMutex: w is the goroutine that holds the lock for writing (0: none),
\* r the goroutines that hold it for reading, a the goroutine that has called
\* Lock, excludes other writers and new readers, and waits for the readers
\* to leave (0: none).
NewRWMutex == [w |-> 0, r |-> {}, a |-> 0]

\* Lock(), first half: exclude other writers, announce to the readers
CanAnnounce(l) == l.w = 0 /\ l.a = 0

Announce(l, t) == [l EXCEPT !.a = t]

\* Lock(), second half: the readers have left
CanLock(l, t) == l.a = t /\ l.r = {}

Lock(l, t) == [l EXCEPT !.w = t, !.a = 0]

UnlockKeep(l) == l

Unlock(l) == [l EXCEPT !.w = 0]

CanRLock(l) == l.w = 0 /\ l.a = 0

RLock(l, t) == [l EXCEPT !.r = @ \cup {t}]

RUnlock(l, t) == [l EXCEPT !.r = @ \ {t}]

Holds(l, t) == l.w = t \/ t \in l.r

\* the goroutines that call Add and Get, and those that Add starts
Goroutines == {Cardinality(Threads) + g : g \in 1..MaxGoroutines}

LockThreads == Threads \cup Goroutines

\* The panel's maps and locks with the goroutines that use them: pcs is the
\* statement each goroutine is about to run, name and cb its arguments, seen
\* the lastTrip that breakerReset read, started the number of goroutines Add
\* has started.
NewLocks ==
  [on |-> TRUE,
   pcs |-> [t \in LockThreads |-> IF t \in Threads THEN "idle" ELSE "off"],
   name |-> [t \in LockThreads |-> ""],
   cb |-> [t \in LockThreads |-> NoOp],
   seen |-> [t \in LockThreads |-> NoTime],
   circuits |-> EmptyMap,
   lastTripTimes |-> EmptyMap,
   panelLock |-> NewRWMutex,
   tripTimesLock |-> NewRWMutex,
   started |-> 0]

\* no goroutine takes the panel's locks
LocksOff == [on |-> FALSE]

\* p.lastTripTimes[name]; the zero time if there is no entry
LastTrip(m, name) == IF name \in DOMAIN m THEN m[name] ELSE NoTime

\* No panel: the state of the specifications that use none.
PanelOff == [on |-> FALSE]

\* NewPanel().  latest observes the breaker added last under each name; got
\* is what the last Get returned for arg; sub holds the circuits of the panel
\* the last GetAll returned for names; subs holds the breakers a panel has
\* subscribed to; trip holds the breakers on which Trip() took effect; op is
\* what the function last run by the no-op's Call returned.  stat holds the
\* counters circuit.<name>.tripped, .reset, .fail and .ready of the Statter
\* for the one breaker added, stamp is lastTripTimes[name] (NoTime: the zero
\* time), ntimes the number of trip-time timings recorded and timing the last
\* of them.
NewPanel ==
  [on |-> TRUE, circuits |-> EmptyMap, latest |-> EmptyMap,
   got |-> [cb |-> NoOp, ok |-> FALSE], arg |-> "", names |-> <<>>,
   sub |-> EmptyMap, subs |-> {}, trip |-> {}, op |-> "none",
   stat |-> [e \in EventKinds |-> 0], stamp |-> NoTime, ntimes |-> 0,
   timing |-> NoTime, lk |-> LocksOff]

MapAddUnlessNoOp(c, name, cb) ==
  [n \in DOMAIN c \cup (IF cb = NoOp THEN {} ELSE {name}) |->
     IF n = name THEN cb ELSE c[n]]

\* p.circuits[name] = cb
MapAdd(c, name, cb) ==
  [n \in DOMAIN c \cup {name} |-> IF n = name THEN cb ELSE c[n]]

PanelGetFound(c, name) ==
  IF name \in DOMAIN c THEN [cb |-> c[name], ok |-> TRUE]
                        ELSE [cb |-> NoOp, ok |-> TRUE]

\* Panel.Get: cb, ok := p.circuits[name]; NoOp() if not ok
PanelGet(c, name) ==
  IF name \in DOMAIN c THEN [cb |-> c[name], ok |-> TRUE]
                        ELSE [cb |-> NoOp, ok |-> FALSE]

\* Panel.GetAll: newPanel.Add(name, p.Get(name)) for each name in turn
RECURSIVE PanelGetAll(_, _)
PanelGetAll(c, names) ==
  IF names = <<>>
    THEN EmptyMap
    ELSE LET k == Len(names)
         IN  MapAdd(PanelGetAll(c, SubSeq(names, 1, k - 1)), names[k],
                    PanelGet(c, names[k]).cb)

\* cb.Subscribe() for every breaker GetAll adds; the no-op's does nothing
RECURSIVE SubscribeAll(_, _, _)
SubscribeAll(c, names, subs) ==
  IF names = <<>>
    THEN subs
    ELSE LET cb == PanelGet(c, names[1]).cb
             rest == SubscribeAll(c, Tail(names), subs)
         IN  IF cb = NoOp THEN rest ELSE rest \cup {cb}

\* breakerTripped: the counter, then lastTripTimes[name] = time.Now()
BreakerTripped(p, t) ==
  [p EXCEPT !.stat["Tripped"] = @ + 1, !.stamp = t]

BreakerResetAlwaysTimes(p, t) ==
  [p EXCEPT !.stat["Reset"] = @ + 1, !.ntimes = @ + 1,
            !.timing = t - p.stamp, !.stamp = NoTime]

\* breakerReset: the counter; if lastTripTimes[name] is not the zero time,
\* the trip-time timing and lastTripTimes[name] = time.Time{}
BreakerReset(p, t) ==
  IF p.stamp # NoTime
    THEN [p EXCEPT !.stat["Reset"] = @ + 1, !.ntimes = @ + 1,
                   !.timing = t - p.stamp, !.stamp = NoTime]
    ELSE [p EXCEPT !.stat["Reset"] = @ + 1]

BreakerFailAsReady(p) == [p EXCEPT !.stat["Ready"] = @ + 1]

\* breakerFail: the counter
BreakerFail(p) == [p EXCEPT !.stat["Fail"] = @ + 1]

\* breakerReady: the counter
BreakerReady(p) == [p EXCEPT !.stat["Ready"] = @ + 1]

\* the goroutine of Add: switch e { case BreakerTripped: ... }
PanelEvent(p, e, t) ==
  CASE e = "Tripped" -> BreakerTripped(p, t)
    [] e = "Reset" -> BreakerReset(p, t)
    [] e = "Fail" -> BreakerFail(p)
    [] e = "Ready" -> BreakerReady(p)
    [] OTHER -> p

\* noOpBreaker
NoOpCall(f) == f

TrippedOf(cb) == IF cb = NoOp THEN FALSE ELSE cb \in panel.trip

ReadyOf(cb) == IF cb = NoOp THEN TRUE ELSE cb \notin panel.trip

\* the sequences of at most n names
NameSeqs(n) == UNION {[1..k -> AskNames] : k \in 0..n}

\* ------------------------------------------------------------------ Init
InitShared ==
  /\ tripped = 0 /\ broken = 0
  /\ failures = 0 /\ consecFailures = 0 /\ successes = 0
  /\ lastFailure = NoTime
  /\ halfOpens = 0
  /\ nextBackOff = BackOffAt(1)
  /\ boIdx = 2
  /\ now = 0
  /\ st = [t \in Threads |-> "none"]
  /\ sst = [t \in Threads |-> "none"]
  /\ err = [t \in Threads |-> "nil"]
  /\ bg = [t \in Threads |-> "none"]
  /\ last = [a |-> "init", t |-> 0, ev |-> <<>>, r |-> "none", s |-> "none"]

\* the breaker as NewBreaker() leaves it: nobody has subscribed
InitBreaker ==
  /\ InitShared
  /\ bus = BusNone
  /\ window = WindowOff
  /\ panel = PanelOff

HistOff == [on |-> FALSE, fails |-> 0, done |-> 0, row |-> 0, trips |-> 0]

HistOn == [on |-> TRUE, fails |-> 0, done |-> 0, row |-> 0, trips |-> 0]

\* one goroutine uses the breaker
Init ==
  /\ InitBreaker
  /\ policy \in Policies
  /\ pc = [t \in Threads |-> IF t = 1 THEN "idle" ELSE "off"]
  /\ obs = "none"
  /\ hist = HistOff

\* one goroutine uses a breaker of any constructor through Fail(), Success()
\* and Reset() only
InitPolicy ==
  /\ InitBreaker
  /\ policy \in PoliciesSeq
  /\ pc = [t \in Threads |-> IF t = 1 THEN "idle" ELSE "off"]
  /\ obs = "none"
  /\ hist = HistOn

\* every goroutine of Threads calls Fail() on a threshold breaker
InitFails ==
  /\ InitBreaker
  /\ policy \in ThresholdPolicies
  /\ pc = [t \in Threads |-> "idle"]
  /\ obs = "none"
  /\ hist = HistOn

\* every goroutine of Threads uses the breaker
InitConc ==
  /\ InitBreaker
  /\ policy \in PoliciesConc
  /\ pc = [t \in Threads |-> "idle"]
  /\ obs = "off"
  /\ hist = HistOff

\* one goroutine uses a breaker to which a subscriber may subscribe; fewer
\* events are sent than the subscriber's channel holds
InitEvents ==
  /\ InitShared
  /\ bus = [BusOff EXCEPT !.max = MaxEvents]
  /\ window = WindowOff
  /\ panel = PanelOff
  /\ policy \in {p \in Policies : p.kind = "none" \/ p.n = 1}
  /\ pc = [t \in Threads |-> IF t = 1 THEN "idle" ELSE "off"]
  /\ obs = "off"
  /\ hist = HistOff

\* one goroutine trips a breaker that has a subscriber, more often than the
\* subscriber's channel holds events
InitOverflow ==
  /\ InitShared
  /\ bus = [BusOff EXCEPT !.on = TRUE, !.max = Capacity + MaxOverflow]
  /\ window = WindowOff
  /\ panel = PanelOff
  /\ policy = [kind |-> "none", n |-> 0]
  /\ pc = [t \in Threads |-> IF t = 1 THEN "idle" ELSE "off"]
  /\ obs = "off"
  /\ hist = HistOff

\* a window of either kind, used by one goroutine
InitWindow ==
  /\ InitShared
  /\ bus = BusNone
  /\ policy = [kind |-> "none", n |-> 0]
  /\ pc = [t \in Threads |-> "off"]
  /\ obs = "off"
  /\ hist = HistOff
  /\ window \in {NewWindow("lazy"), NewWindow("ticker")}
  /\ panel = PanelOff

\* a panel and the breakers of Breakers, used by one goroutine
InitPanel ==
  /\ InitShared
  /\ bus = BusNone
  /\ policy = [kind |-> "none", n |-> 0]
  /\ pc = [t \in Threads |-> "off"]
  /\ obs = "off"
  /\ hist = HistOff
  /\ window = WindowOff
  /\ panel = NewPanel

\* a panel to which the breaker was added under one name: Add has subscribed
\* and started its goroutine; one goroutine uses the breaker
InitTelemetry ==
  /\ InitShared
  /\ bus = [BusOff EXCEPT !.on = TRUE, !.max = MaxEvents]
  /\ policy = [kind |-> "none", n |-> 0]
  /\ pc = [t \in Threads |-> IF t = 1 THEN "idle" ELSE "off"]
  /\ obs = "off"
  /\ hist = HistOff
  /\ window = WindowOff
  /\ panel = [NewPanel EXCEPT !.circuits = MapAdd(EmptyMap, "a", 1),
                              !.latest = MapAdd(EmptyMap, "a", 1),
                              !.subs = {1}]

\* ------------------------------------------------------------ operations
\* The body of Trip(): tripped, _lastFailure.
TripBodyToggle ==
  /\ tripped' = 1 - tripped
  /\ lastFailure' = now

TripBody ==
  /\ tripped' = 1
  /\ lastFailure' = now

Trip(t) ==
  /\ Idle(t)
  /\ TripBody
  /\ Mark("Trip", t, <<"Tripped">>, "none", "none")
  /\ UNCHANGED <<broken, failures, consecFailures, successes, halfOpens,
                 nextBackOff, boIdx, policy, now, pc, st, sst, err, bg>>

ResetBodyKeepsSuccesses ==
  /\ broken' = 0
  /\ tripped' = 0
  /\ failures' = 0
  /\ successes' = successes

\* The stores of Reset(); consecFailures is written by the caller's frame.
ResetBody ==
  /\ broken' = 0
  /\ tripped' = 0
  /\ failures' = 0
  /\ successes' = 0

\* Reset(): the five stores; the Reset event is sent unconditionally.
Reset(t) ==
  /\ Idle(t)
  /\ ResetBody
  /\ consecFailures' = 0
  /\ Mark("Reset", t, <<"Reset">>, "none", "none")
  /\ UNCHANGED <<lastFailure, halfOpens, nextBackOff, boIdx, policy, now,
                 pc, st, sst, err, bg>>

Break(t) ==
  /\ Idle(t)
  /\ broken' = 1
  /\ TripBody
  /\ Mark("Break", t, <<"Tripped">>, "none", "none")
  /\ UNCHANGED <<failures, consecFailures, successes, halfOpens,
                 nextBackOff, boIdx, policy, now, pc, st, sst, err, bg>>

FailCountNoConsec ==
  /\ failures' = failures + 1
  /\ consecFailures' = consecFailures
  /\ lastFailure' = now

\* Fail(), first part: the counters, _lastFailure and the Fail event.
FailCount ==
  /\ failures' = failures + 1
  /\ consecFailures' = consecFailures + 1
  /\ lastFailure' = now

FailBegin(t) ==
  /\ Idle(t)
  /\ Budget
  /\ FailCount
  /\ pc' = [pc EXCEPT ![t] = "fail_trip"]
  /\ Mark("FailBegin", t, <<"Fail">>, "none", "none")
  /\ UNCHANGED <<tripped, broken, successes, halfOpens, nextBackOff, boIdx,
                 policy, now, st, sst, err, bg>>

\* Fail() inside Call, after the error branch was taken.
CallFail(t) ==
  /\ pc[t] = "call_fail"
  /\ FailCount
  /\ pc' = [pc EXCEPT ![t] = "call_fail_trip"]
  /\ Mark("CallFail", t, <<"Fail">>, "none", st[t])
  /\ UNCHANGED <<tripped, broken, successes, halfOpens, nextBackOff, boIdx,
                 policy, now, st, sst, err, bg>>

\* Fail(), second part: ShouldTrip reads the counters and Trip() runs.  Inside
\* Call, err is then returned and the locals of Call go out of reach.
FailTrip(t) ==
  /\ pc[t] \in {"fail_trip", "call_fail_trip"}
  /\ LET ev == IF ShouldTrip(Failures, ConsecFailures) THEN <<"Tripped">> ELSE <<>>
         r == IF pc[t] = "call_fail_trip" THEN err[t] ELSE "none"
     IN /\ IF ShouldTrip(Failures, ConsecFailures)
             THEN TripBody
             ELSE UNCHANGED <<tripped, lastFailure>>
        /\ Mark("FailTrip", t, ev, r, st[t])
  /\ pc' = [pc EXCEPT ![t] = "idle"]
  /\ st' = [st EXCEPT ![t] = "none"]
  /\ err' = [err EXCEPT ![t] = "nil"]
  /\ bg' = [bg EXCEPT ![t] = "none"]
  /\ UNCHANGED <<broken, failures, consecFailures, successes, halfOpens,
                 nextBackOff, boIdx, policy, now, sst>>

\* Success(), first part: BackOff.Reset(), nextBackOff = NextBackOff(), and
\* the state read into the local of Success.
SuccessRead(t) ==
  LET s == StateWith(BackOffAt(1))
  IN /\ StateEffect(s, BackOffAt(1), 2)
     /\ sst' = [sst EXCEPT ![t] = s]

SuccessBegin(t) ==
  /\ Idle(t)
  /\ Budget
  /\ SuccessRead(t)
  /\ pc' = [pc EXCEPT ![t] = "succ_end"]
  /\ Mark("SuccessBegin", t, <<>>, "none", StateWith(BackOffAt(1)))
  /\ UNCHANGED <<tripped, broken, failures, consecFailures, successes,
                 lastFailure, policy, now, st, err, bg>>

\* Success() inside Call, after the nil branch was taken.
CallSuccess(t) ==
  /\ pc[t] = "call_succ"
  /\ SuccessRead(t)
  /\ pc' = [pc EXCEPT ![t] = "call_succ_end"]
  /\ Mark("CallSuccess", t, <<>>, "none", StateWith(BackOffAt(1)))
  /\ UNCHANGED <<tripped, broken, failures, consecFailures, successes,
                 lastFailure, policy, now, st, err, bg>>

ConsecAfterSuccessKept == consecFailures

\* Success(): atomic.StoreInt64(&cb.consecFailures, 0)
ConsecAfterSuccess == 0

\* Success(), second part: Reset() when the read was halfopen, then
\* consecFailures = 0 and successes++.  Inside Call, nil is then returned.
SuccessEnd(t) ==
  /\ pc[t] \in {"succ_end", "call_succ_end"}
  /\ LET r == IF pc[t] = "call_succ_end" THEN "nil" ELSE "none"
     IN IF sst[t] = "halfopen"
       THEN /\ broken' = 0
            /\ tripped' = 0
            /\ failures' = 0
            /\ successes' = 0 + 1
            /\ Mark("SuccessEnd", t, <<"Reset">>, r, st[t])
       ELSE /\ successes' = successes + 1
            /\ Mark("SuccessEnd", t, <<>>, r, st[t])
            /\ UNCHANGED <<broken, tripped, failures>>
  /\ consecFailures' = ConsecAfterSuccess
  /\ pc' = [pc EXCEPT ![t] = "idle"]
  /\ st' = [st EXCEPT ![t] = "none"]
  /\ sst' = [sst EXCEPT ![t] = "none"]
  /\ err' = [err EXCEPT ![t] = "nil"]
  /\ bg' = [bg EXCEPT ![t] = "none"]
  /\ UNCHANGED <<lastFailure, halfOpens, nextBackOff, boIdx, policy, now>>

\* Ready(): if state == halfopen { ...; cb.sendEvent(BreakerReady) }
ReadyEvent(s) == IF s = "halfopen" THEN <<"Ready">> ELSE <<>>

ReadyResultUnlessOpen(s) == IF s = "closed" THEN "true" ELSE "false"

\* Ready(): return state == closed || state == halfopen
ReadyResult(s) == IF s = "closed" \/ s = "halfopen" THEN "true" ELSE "false"

\* Ready(): the state read; a closed or open read returns at once.
ReadyBegin(t) ==
  /\ Idle(t)
  /\ LET s == StateRead
         r == IF s = "halfopen" THEN "none" ELSE ReadyResult(s)
     IN /\ StateEffect(s, nextBackOff, boIdx)
        /\ st' = [st EXCEPT ![t] = IF s = "halfopen" THEN s ELSE "none"]
        /\ pc' = [pc EXCEPT ![t] = IF s = "halfopen" THEN "ready_rel" ELSE "idle"]
        /\ Mark("ReadyBegin", t, <<>>, r, s)
  /\ UNCHANGED <<tripped, broken, failures, consecFailures, successes,
                 lastFailure, policy, now, sst, err, bg>>

\* Ready() after a halfopen read: halfOpens is stored 0, the Ready event is
\* sent, true is returned.
ReadyRelease(t) ==
  /\ pc[t] = "ready_rel"
  /\ halfOpens' = 0
  /\ pc' = [pc EXCEPT ![t] = "idle"]
  /\ st' = [st EXCEPT ![t] = "none"]
  /\ Mark("ReadyRelease", t, ReadyEvent(st[t]), ReadyResult(st[t]), st[t])
  /\ UNCHANGED <<tripped, broken, failures, consecFailures, successes,
                 lastFailure, nextBackOff, boIdx, policy, now, sst, err, bg>>

\* Call(circuit, timeout): the state read and the open check; otherwise the
\* circuit is started, in this goroutine (timeout == 0) or in its own.
CallBegin(t, withTimeout) ==
  /\ Idle(t)
  /\ Budget
  /\ LET s == StateRead
     IN /\ StateEffect(s, nextBackOff, boIdx)
        /\ IF ~Admit(s)
             THEN /\ UNCHANGED <<pc, st, bg>>
                  /\ Mark("CallBegin", t, <<>>, "ErrBreakerOpen", s)
             ELSE /\ pc' = [pc EXCEPT ![t] = IF withTimeout THEN "call_wait" ELSE "call_op"]
                  /\ st' = [st EXCEPT ![t] = s]
                  /\ bg' = [bg EXCEPT ![t] = IF withTimeout THEN "running" ELSE "none"]
                  /\ Mark("CallBegin", t, <<>>, "none", s)
  /\ UNCHANGED <<tripped, broken, failures, consecFailures, successes,
                 lastFailure, policy, now, sst, err>>

\* timeout == 0: circuit() returns e in the caller's goroutine.
OpReturn(t, e) ==
  /\ pc[t] = "call_op"
  /\ err' = [err EXCEPT ![t] = e]
  /\ pc' = [pc EXCEPT ![t] = "call_check"]
  /\ Mark("OpReturn", t, <<>>, "none", st[t])
  /\ UNCHANGED <<shared, policy, now, st, sst, bg>>

\* timeout != 0: circuit() returns e in its goroutine, which assigns err and
\* closes c ("closed" while the select still waits, "late" once the select
\* has timed out).  The goroutine lives on after the select has timed out;
\* once Call has returned, nothing reads what it assigns.
BgReturn(t, e) ==
  /\ bg[t] = "running"
  /\ err' = [err EXCEPT ![t] = e]
  /\ bg' = [bg EXCEPT ![t] = IF pc[t] = "call_wait" THEN "closed" ELSE "late"]
  /\ Mark("BgReturn", t, <<>>, "none", st[t])
  /\ UNCHANGED <<shared, policy, now, pc, st, sst>>

\* select: case <-c
WaitDone(t) ==
  /\ pc[t] = "call_wait"
  /\ bg[t] = "closed"
  /\ pc' = [pc EXCEPT ![t] = "call_check"]
  /\ Mark("WaitDone", t, <<>>, "none", st[t])
  /\ UNCHANGED <<shared, policy, now, st, sst, err, bg>>

\* select: case <-time.After(timeout): err = ErrBreakerTimeout
Timeout(t) ==
  /\ pc[t] = "call_wait"
  /\ err' = [err EXCEPT ![t] = "ErrBreakerTimeout"]
  /\ pc' = [pc EXCEPT ![t] = "call_check"]
  /\ Mark("Timeout", t, <<>>, "none", st[t])
  /\ UNCHANGED <<shared, policy, now, st, sst, bg>>

\* if err != nil { if state == halfopen { halfOpens = 0 }; cb.Fail() ... }
\* else cb.Success()
CallCheck(t) ==
  /\ pc[t] = "call_check"
  /\ IF err[t] # "nil"
       THEN /\ halfOpens' = ClearLatch(st[t])
            /\ pc' = [pc EXCEPT ![t] = "call_fail"]
       ELSE /\ halfOpens' = halfOpens
            /\ pc' = [pc EXCEPT ![t] = "call_succ"]
  /\ Mark("CallCheck", t, <<>>, "none", st[t])
  /\ UNCHANGED <<tripped, broken, failures, consecFailures, successes,
                 lastFailure, nextBackOff, boIdx, policy, now, st, sst, err, bg>>

CancelRecordsFailure == FailCount

\* what a cancelled CallContext records: no failure
CancelRecords == UNCHANGED <<failures, consecFailures, lastFailure>>

\* CallContext(ctx, circuit, timeout) is Call(circuit, timeout) but for this:
\* when ctx is cancelled before the circuit has returned, the call returns the
\* cancellation cause and records no failure.
CallCancel(t) ==
  /\ pc[t] \in {"call_op", "call_wait"}
  /\ CancelRecords
  /\ halfOpens' = ClearLatch(st[t])
  /\ pc' = [pc EXCEPT ![t] = "idle"]
  /\ st' = [st EXCEPT ![t] = "none"]
  /\ err' = [err EXCEPT ![t] = "nil"]
  /\ bg' = [bg EXCEPT ![t] = "none"]
  /\ Mark("CallCancel", t, <<>>, "Cancelled", st[t])
  /\ UNCHANGED <<tripped, broken, successes, nextBackOff, boIdx, policy,
                 now, sst>>

\* everything but the subscriber and the step taken last
breaker ==
  <<tripped, broken, failures, consecFailures, successes, lastFailure,
    halfOpens, nextBackOff, boIdx, policy, now, pc, st, sst, err, bg>>

\* Subscribe(): the two channels, the goroutine, the append to eventReceivers
Subscribe(t) ==
  /\ Idle(t)
  /\ ~bus.on
  /\ bus' = [bus EXCEPT !.on = TRUE]
  /\ MarkBus("Subscribe")
  /\ UNCHANGED breaker

EnqueueFront(q, v) == <<v>> \o q

\* output <- v: the event goes behind those already in the channel
Enqueue(q, v) == Append(q, v)

DropNewest(q) == SubSeq(q, 1, Len(q) - 1)

\* <-output takes the event that has been in the channel longest
DropOldest(q) == Tail(q)

\* the goroutine of Subscribe(): select { case output <- v: default: }
FwdSelect ==
  /\ bus.on /\ bus.fpc = "select"
  /\ IF Len(bus.output) < Capacity
       THEN bus' = [bus EXCEPT !.output = Enqueue(bus.output, bus.v),
                               !.v = NoEvent, !.fpc = "recv"]
       ELSE bus' = [bus EXCEPT !.fpc = "drop"]
  /\ MarkBus("FwdSelect")
  /\ UNCHANGED breaker

\* the goroutine of Subscribe(), default branch: <-output, which waits while
\* output is empty
FwdDrop ==
  /\ bus.on /\ bus.fpc = "drop"
  /\ bus.output # <<>>
  /\ bus' = [bus EXCEPT !.output = DropOldest(bus.output), !.fpc = "put"]
  /\ MarkBus("FwdDrop")
  /\ UNCHANGED breaker

\* the goroutine of Subscribe(), default branch: output <- v, which waits
\* while output is full
FwdPut ==
  /\ bus.on /\ bus.fpc = "put"
  /\ Len(bus.output) < Capacity
  /\ bus' = [bus EXCEPT !.output = Enqueue(bus.output, bus.v),
                         !.v = NoEvent, !.fpc = "recv"]
  /\ MarkBus("FwdPut")
  /\ UNCHANGED breaker

\* the subscriber receives from its channel and keeps the event
SubRead ==
  /\ bus.on /\ bus.output # <<>>
  /\ bus' = [bus EXCEPT !.output = Tail(bus.output),
                         !.got = Append(bus.got, Head(bus.output)),
                         !.read = TRUE]
  /\ MarkBus("SubRead")
  /\ UNCHANGED breaker

\* the subscriber receives from its channel and throws the event away
SubDrain ==
  /\ bus.on /\ bus.output # <<>>
  /\ bus' = [bus EXCEPT !.output = Tail(bus.output), !.read = TRUE]
  /\ MarkBus("SubDrain")
  /\ UNCHANGED breaker

\* the clock moves on
Tick ==
  /\ now < MaxTime
  /\ now' = now + 1
  /\ Mark("Tick", 0, <<>>, "none", "none")
  /\ UNCHANGED <<shared, policy, pc, st, sst, err, bg>>

Next ==
  \/ \E t \in Threads : Trip(t)
  \/ \E t \in Threads : Reset(t)
  \/ \E t \in Threads : Break(t)
  \/ \E t \in Threads : FailBegin(t)
  \/ \E t \in Threads : CallFail(t)
  \/ \E t \in Threads : FailTrip(t)
  \/ \E t \in Threads : SuccessBegin(t)
  \/ \E t \in Threads : CallSuccess(t)
  \/ \E t \in Threads : SuccessEnd(t)
  \/ \E t \in Threads : ReadyBegin(t)
  \/ \E t \in Threads : ReadyRelease(t)
  \/ \E t \in Threads, w \in BOOLEAN : CallBegin(t, w)
  \/ \E t \in Threads, e \in OpResults : OpReturn(t, e)
  \/ \E t \in Threads, e \in OpResults : BgReturn(t, e)
  \/ \E t \in Threads : WaitDone(t)
  \/ \E t \in Threads : Timeout(t)
  \/ \E t \in Threads : CallCheck(t)
  \/ Tick

Spec == Init /\ [][Next]_vars

SpecConc == InitConc /\ [][Next]_vars

\* the operations of the breaker together with CallContext
NextCtx ==
  \/ Next
  \/ \E t \in Threads : CallCancel(t)

SpecCtx == Init /\ [][NextCtx]_vars

\* Trip() as another goroutine sees it: the store of tripped ...
TripStore(t) ==
  /\ Idle(t)
  /\ tripped' = 1
  /\ pc' = [pc EXCEPT ![t] = "trip_stamp"]
  /\ Mark("TripStore", t, <<>>, "none", "none")
  /\ UNCHANGED <<broken, failures, consecFailures, successes, lastFailure,
                 halfOpens, nextBackOff, boIdx, policy, now, st, sst, err, bg>>

\* ... and then now := time.Now(), the store of _lastFailure and the event
TripStamp(t) ==
  /\ pc[t] = "trip_stamp"
  /\ lastFailure' = now
  /\ pc' = [pc EXCEPT ![t] = "idle"]
  /\ Mark("TripStamp", t, <<"Tripped">>, "none", "none")
  /\ UNCHANGED <<tripped, broken, failures, consecFailures, successes,
                 halfOpens, nextBackOff, boIdx, policy, now, st, sst, err, bg>>

\* state() gets as far as lastFailure() and _lastFailure was never stored
ReadsUnset == tripped = 1 /\ broken = 0 /\ lastFailure = NoTime

\* lastFailure() of a breaker whose _lastFailure was never stored: the load
\* answers nil and the dereference panics; the goroutine is gone.
StatePanic(t) ==
  /\ Idle(t)
  /\ ReadsUnset
  /\ pc' = [pc EXCEPT ![t] = "panic"]
  /\ Mark("StatePanic", t, <<>>, "panic", "none")
  /\ UNCHANGED <<shared, policy, now, st, sst, err, bg>>

\* Ready() and Call whose state() does not panic
ReadyBeginSet(t) == ~ReadsUnset /\ ReadyBegin(t)

CallBeginSet(t) == ~ReadsUnset /\ CallBegin(t, FALSE)

\* goroutines call Trip(), Reset(), Ready() and Call side by side, the two
\* stores of Trip() taken apart
NextTrip ==
  \/ \E t \in Threads : TripStore(t)
  \/ \E t \in Threads : TripStamp(t)
  \/ \E t \in Threads : Reset(t)
  \/ \E t \in Threads : StatePanic(t)
  \/ \E t \in Threads : ReadyBeginSet(t)
  \/ \E t \in Threads : ReadyRelease(t)
  \/ \E t \in Threads : CallBeginSet(t)
  \/ \E t \in Threads, e \in OpResults : OpReturn(t, e)
  \/ \E t \in Threads : CallCheck(t)
  \/ \E t \in Threads : CallFail(t)
  \/ \E t \in Threads : FailTrip(t)
  \/ \E t \in Threads : CallSuccess(t)
  \/ \E t \in Threads : SuccessEnd(t)
  \/ Tick

SpecTrip == InitConc /\ [][NextTrip]_vars

\* one goroutine calls Trip, Reset, Ready and Fail while a subscriber
\* receives; the channel is never full, so the default branch of the
\* subscriber's goroutine does not run
NextEvents ==
  \/ \E t \in Threads : Subscribe(t)
  \/ \E t \in Threads : Trip(t)
  \/ \E t \in Threads : Reset(t)
  \/ \E t \in Threads : ReadyBegin(t)
  \/ \E t \in Threads : ReadyRelease(t)
  \/ \E t \in Threads : FailBegin(t)
  \/ \E t \in Threads : FailTrip(t)
  \/ FwdSelect
  \/ SubRead
  \/ Tick

SpecEvents == InitEvents /\ [][NextEvents]_vars

\* one goroutine calls Trip again and again while the subscriber receives
\* when it pleases
NextOverflow ==
  \/ \E t \in Threads : Trip(t)
  \/ FwdSelect
  \/ FwdDrop
  \/ FwdPut
  \/ SubDrain

SpecOverflow == InitOverflow /\ [][NextOverflow]_vars

\* Fail(), Success() and Reset() called one after the other
NextPolicy ==
  \/ \E t \in Threads : Reset(t)
  \/ \E t \in Threads : FailBegin(t)
  \/ \E t \in Threads : FailTrip(t)
  \/ \E t \in Threads : SuccessBegin(t)
  \/ \E t \in Threads : SuccessEnd(t)
  \/ Tick

SpecPolicy == InitPolicy /\ [][NextPolicy]_vars

\* Fail() called by several goroutines at once
NextFails ==
  \/ \E t \in Threads : FailBegin(t)
  \/ \E t \in Threads : FailTrip(t)
  \/ Tick

SpecFails == InitFails /\ [][NextFails]_vars

\* ------------------------------------------------------ window operations
untouched == <<shared, policy, pc, st, sst, err, bg>>

\* window.Fail
WindowFail ==
  /\ window.mode # "off" /\ window.fs < MaxCount
  /\ LET w == Current(window, now)
     IN  window' = [w EXCEPT !.buckets[w.idx] = BucketFail(@),
                             !.fs = @ + 1, !.lastOp = now]
  /\ MarkOther("WindowFail", "none")
  /\ UNCHANGED <<untouched, now, panel>>

\* window.Success
WindowSuccess ==
  /\ window.mode # "off" /\ window.ss < MaxCount
  /\ LET w == Current(window, now)
     IN  window' = [w EXCEPT !.buckets[w.idx] = BucketSuccess(@),
                             !.ss = @ + 1, !.lastOp = now]
  /\ MarkOther("WindowSuccess", "none")
  /\ UNCHANGED <<untouched, now, panel>>

\* window.Reset
WindowReset ==
  /\ window.mode # "off"
  /\ window' = [window EXCEPT
                  !.buckets = [i \in DOMAIN window.buckets |-> NewBucket],
                  !.fs = 0, !.ss = 0, !.rot = FALSE]
  /\ MarkOther("WindowReset", "none")
  /\ UNCHANGED <<untouched, now, panel>>

\* window.Run, the goroutine: case <-ticker.C
WindowRun ==
  /\ window.mode = "ticker" /\ window.tick = 1
  /\ window' = [Rotate(window) EXCEPT !.tick = 0]
  /\ MarkOther("WindowRun", "none")
  /\ UNCHANGED <<untouched, now, panel>>

\* The clock moves on by one unit.  The ticker of Run sends a tick every
\* bucketTime; the clock waits until the goroutine has taken the tick before.
ClockAdd ==
  /\ window.mode # "off" /\ now < MaxTime
  /\ window.mode = "ticker" => window.tick = 0
  /\ now' = now + 1
  /\ window' = IF window.mode = "ticker" /\ (now + 1) % BucketTime = 0
                 THEN [window EXCEPT !.tick = 1]
                 ELSE window
  /\ MarkOther("ClockAdd", "none")
  /\ UNCHANGED <<untouched, panel>>

NextWindow ==
  \/ WindowFail
  \/ WindowSuccess
  \/ WindowReset
  \/ WindowRun
  \/ ClockAdd

SpecWindow == InitWindow /\ [][NextWindow]_vars

\* ------------------------------------------------------- panel operations
\* Panel.Add
Add(name, cb) ==
  /\ panel.on
  /\ panel' = [panel EXCEPT !.circuits = MapAdd(@, name, cb),
                            !.latest = [n \in DOMAIN @ \cup {name} |->
                                          IF n = name THEN cb ELSE @[n]],
                            !.subs = @ \cup {cb}]
  /\ MarkOther("Add", "none")
  /\ UNCHANGED <<untouched, now, window>>

\* Panel.Get
Get(name) ==
  /\ panel.on
  /\ panel' = [panel EXCEPT !.got = PanelGet(panel.circuits, name),
                            !.arg = name]
  /\ MarkOther("Get", "none")
  /\ UNCHANGED <<untouched, now, window>>

\* Panel.GetAll
GetAll(names) ==
  /\ panel.on
  /\ panel' = [panel EXCEPT
                 !.sub = PanelGetAll(panel.circuits, names),
                 !.names = names,
                 !.subs = SubscribeAll(panel.circuits, names, panel.subs)]
  /\ MarkOther("GetAll", "none")
  /\ UNCHANGED <<untouched, now, window>>

\* Trip() on the breaker the last Get returned; the no-op's does nothing
GotTrip ==
  /\ panel.on
  /\ panel' = IF panel.got.cb = NoOp
                THEN panel
                ELSE [panel EXCEPT !.trip = @ \cup {panel.got.cb}]
  /\ MarkOther("GotTrip", "none")
  /\ UNCHANGED <<untouched, now, window>>

\* Call(f) on the no-op breaker, f returning r
GotCall(r) ==
  /\ panel.on /\ panel.got.cb = NoOp
  /\ panel' = [panel EXCEPT !.op = r]
  /\ MarkOther("GotCall", NoOpCall(r))
  /\ UNCHANGED <<untouched, now, window>>

NextPanel ==
  \/ \E name \in Names, cb \in Breakers : Add(name, cb)
  \/ \E name \in AskNames : Get(name)
  \/ \E names \in NameSeqs(MaxNames) : GetAll(names)
  \/ GotTrip
  \/ \E r \in OpResults : GotCall(r)

SpecPanel == InitPanel /\ [][NextPanel]_vars

\* The goroutine of Add: e := <-events and the handler of e.
Dispatch ==
  /\ panel.on /\ bus.on /\ bus.output # <<>>
  /\ bus' = [bus EXCEPT !.output = Tail(bus.output),
                         !.got = Append(bus.got, Head(bus.output)),
                         !.read = TRUE]
  /\ panel' = PanelEvent(panel, Head(bus.output).e, now)
  /\ last' = [a |-> "Dispatch", t |-> 0, ev |-> <<>>, r |-> "none", s |-> "none"]
  /\ UNCHANGED <<breaker, obs, hist, window>>

\* the clock moves on while the caller waits for the back-off
Wait ==
  /\ now < MaxWait
  /\ Tick

\* one goroutine calls Fail, Trip, Ready and Reset on a breaker that a panel
\* holds; fewer events are sent than the subscriber's channel holds
NextTelemetry ==
  \/ \E t \in Threads : Trip(t)
  \/ \E t \in Threads : Reset(t)
  \/ \E t \in Threads : ReadyBegin(t)
  \/ \E t \in Threads : ReadyRelease(t)
  \/ \E t \in Threads : FailBegin(t)
  \/ \E t \in Threads : FailTrip(t)
  \/ FwdSelect
  \/ Dispatch
  \/ Wait

\* the goroutine of Subscribe and the goroutine of Add are scheduled
SpecTelemetry ==
  /\ InitTelemetry /\ [][NextTelemetry]_vars
  /\ WF_vars(FwdSelect) /\ WF_vars(Dispatch)

TypeOK ==
  /\ tripped \in {0, 1} /\ broken \in {0, 1} /\ halfOpens \in {0, 1}
  /\ failures \in Nat /\ consecFailures \in Nat /\ successes \in Nat
  /\ now \in 0..MaxTime
  /\ lastFailure \in {NoTime} \cup 0..MaxTime

\* ---------------------------------------------------------------- claims
Active == {t \in Threads : pc[t] # "off"}

\* threads inside Ready() between the CAS they won and the store of 0
ReadyHolders == {t \in Threads : pc[t] = "ready_rel"}

\* threads inside a Call admitted on a half-open read that has not yet
\* cleared the latch
CallProbes ==
  {t \in Threads : st[t] = "halfopen"
      /\ pc[t] \in {"call_op", "call_wait", "call_check", "call_succ", "call_succ_end"}}

\* threads inside a Call admitted on a half-open read whose outcome is not
\* yet recorded by Fail() or Success()
PendingProbes ==
  {t \in Threads : st[t] = "halfopen"
      /\ pc[t] \in {"call_op", "call_wait", "call_check", "call_fail",
                    "call_succ", "call_succ_end"}}

\* C1: a Call that reads the state as open returns ErrBreakerOpen, does not
\* start the circuit (neither in its own goroutine nor in a new one) and
\* leaves failures, consecFailures and successes as they were.
C1_OpenCallShortCircuits ==
  [][\A t \in Threads :
       (pc[t] = "idle" /\ last'.a = "CallBegin" /\ last'.t = t /\ StateRead = "open")
         => /\ last'.r = "ErrBreakerOpen"
            /\ pc'[t] = "idle"
            /\ bg'[t] = bg[t]
            /\ failures' = failures
            /\ consecFailures' = consecFailures
            /\ successes' = successes]_vars

\* C1 witness: a Call has just returned ErrBreakerOpen on a tripped, not
\* broken breaker whose latch was taken, with failures counted before.
C1_Witness ==
  /\ last.a = "CallBegin" /\ last.r = "ErrBreakerOpen"
  /\ tripped = 1 /\ broken = 0 /\ halfOpens = 1 /\ failures > 0

\* C2 (as claimed): once a Ready() has observed half-open and returned true,
\* the Ready() that comes next, with no Success or Fail begun in between and
\* nobody else inside an operation, does not observe half-open.
C2_Original ==
  [][~(/\ last.a = "ReadyRelease"
       /\ \A t \in Threads : pc[t] = "idle"
       /\ last'.a = "ReadyBegin" /\ last'.s = "halfopen")]_vars

\* C2 (amended): at most one thread at a time is inside Ready() between
\* winning the CAS on halfOpens and storing 0; while it is there the latch is
\* taken and no Call is running as an admitted probe.
C2_ReadyLatchExclusive ==
  /\ Cardinality(ReadyHolders) <= 1
  /\ ReadyHolders # {} => (halfOpens = 1 /\ CallProbes = {})

\* C2 witness: one thread holds the latch inside Ready() and the Ready() of
\* another thread has just returned false.
C2_Witness ==
  /\ last.a = "ReadyBegin" /\ last.r = "false"
  /\ \E t \in Threads : t # last.t /\ pc[t] = "ready_rel"

\* C3 (as claimed): at most one Call admitted on a half-open read has invoked
\* the circuit while its outcome is not yet recorded.
C3_Original == Cardinality(PendingProbes) <= 1

\* C3 (amended): at most one Call at a time is between winning the CAS on
\* halfOpens and clearing the latch; while one is, the latch is taken and every
\* other Call on the tripped breaker returns ErrBreakerOpen.
C3_OneProbeHoldsLatch ==
  /\ [](Cardinality(CallProbes) <= 1 /\ (CallProbes # {} => halfOpens = 1))
  /\ [][(CallProbes # {} /\ tripped = 1 /\ last'.a = "CallBegin")
          => (last'.r = "ErrBreakerOpen" /\ pc' = pc)]_vars

\* C3 witness: one Call runs the circuit as the admitted probe and the Call of
\* another thread has just returned ErrBreakerOpen.
C3_Witness ==
  /\ last.a = "CallBegin" /\ last.r = "ErrBreakerOpen"
  /\ \E t \in Threads : t # last.t /\ t \in CallProbes /\ pc[t] = "call_op"

\* C4: when the Call admitted as the half-open probe has run a circuit that
\* returned nil and has returned, the breaker is no longer tripped (and stays
\* so while only succeeding Calls follow).
C4_ProbeSuccessCloses == obs = "passed" => tripped = 0

C6_NoStuckOpen ==
  (/\ \A t \in Active : pc[t] = "idle"
   /\ tripped = 1 /\ broken = 0 /\ nextBackOff # Stop
   /\ now - lastFailure > nextBackOff)
    => StateRead = "halfopen"

\* C7: right after Reset() has returned, Failures(), Successes() and
\* ConsecFailures() are 0 and Tripped() is false.
C7_ResetZeroes ==
  last.a = "Reset" =>
    (Failures = 0 /\ Successes = 0 /\ ConsecFailures = 0 /\ ~Tripped)

\* C7 witness: Reset() has just returned on a breaker that had recorded a
\* failure and had been through a half-open read.
C7_Witness == last.a = "Reset" /\ lastFailure # NoTime /\ halfOpens = 1

\* C8: after Reset(); Trip() and a clock advance of more than the initial
\* back-off, Ready() does not return false.
C8_ResetClearsLatchAndBackOff ==
  [][(obs = "reset_trip" /\ now - lastFailure > InitialInterval
        /\ last'.a = "ReadyBegin")
       => last'.r # "false"]_vars

\* C9: while broken is set the breaker is tripped; every step but Reset()
\* leaves broken set, every Ready() returns false and every Call returns
\* ErrBreakerOpen without starting the circuit.
C9_BreakLatchesOpen ==
  /\ [](broken = 1 => tripped = 1)
  /\ [][(broken = 1 /\ last'.a # "Reset")
          => /\ broken' = 1
             /\ last'.a = "ReadyBegin" => last'.r = "false"
             /\ last'.a = "CallBegin" => (last'.r = "ErrBreakerOpen" /\ pc' = pc)]_vars

\* C9 witness: on a broken breaker whose latch is free, Ready() has just
\* returned false although more than nextBackOff has elapsed.
C9_Witness ==
  /\ broken = 1 /\ last.a = "ReadyBegin" /\ last.r = "false"
  /\ halfOpens = 0 /\ now - lastFailure > nextBackOff /\ successes > 0

\* C10: while the breaker is tripped, not broken, and no more than nextBackOff
\* has elapsed since the last failure, a state read by Ready() or Call is
\* open: false or ErrBreakerOpen is returned, no event is sent, the latch and
\* the back-off stay as they are; the same for the read inside Success(),
\* which compares with the back-off it has just reset.
C10_OpenWithinBackOff ==
  [][/\ (tripped = 1 /\ broken = 0 /\ now - lastFailure <= nextBackOff
           /\ last'.a \in {"ReadyBegin", "CallBegin"})
        => /\ last'.s = "open"
           /\ last'.r \in {"false", "ErrBreakerOpen"}
           /\ last'.ev = <<>>
           /\ pc' = pc
           /\ halfOpens' = halfOpens
           /\ nextBackOff' = nextBackOff
     /\ (tripped = 1 /\ broken = 0 /\ now - lastFailure <= BackOffAt(1)
           /\ last'.a \in {"SuccessBegin", "CallSuccess"})
        => /\ last'.s = "open"
           /\ halfOpens' = halfOpens]_vars

\* C10 witness: Ready() has just returned false with the latch free when
\* exactly nextBackOff had elapsed since the last failure.
C10_Witness ==
  /\ last.a = "ReadyBegin" /\ last.r = "false"
  /\ tripped = 1 /\ broken = 0 /\ halfOpens = 0
  /\ nextBackOff > 0 /\ now - lastFailure = nextBackOff

\* C11: while the breaker is tripped and nextBackOff is the Stop sentinel, no
\* state read by Ready() or Call is half-open, however long ago the last
\* failure was: Ready() returns false and Call returns ErrBreakerOpen without
\* starting the circuit.
C11_StopNeverHalfOpen ==
  [][(tripped = 1 /\ nextBackOff = Stop
        /\ last'.a \in {"ReadyBegin", "CallBegin"})
       => /\ last'.s = "open"
          /\ last'.r \in {"false", "ErrBreakerOpen"}
          /\ pc' = pc]_vars

Sent(e, ev) == \E i \in DOMAIN ev : ev[i] = e

C13_ThresholdConcurrent ==
  hist.done >= policy.n => (Tripped /\ hist.trips = 1)

\* C14: every Success() leaves ConsecFailures() at 0, and on a consecutive-n
\* breaker driven by one thread a Fail() trips the breaker exactly when it is
\* the n-th Fail() since the last Success() (or Reset()): ConsecFailures() is
\* the length of the current run of failures.
C14_ConsecutivePolicy ==
  /\ []((\A t \in Active : pc[t] = "idle") => ConsecFailures = hist.row)
  /\ [][/\ last'.a = "SuccessEnd" => ConsecFailures' = 0
        /\ (policy.kind = "consecutive" /\ last'.a = "FailTrip")
             => /\ Sent("Tripped", last'.ev) <=> hist.row = policy.n
                /\ Sent("Tripped", last'.ev) => Tripped']_vars

\* C14 witness: on a consecutive-2 breaker a Fail() has just returned without
\* tripping, as the second failure recorded but the first since a Success().
C14_Witness ==
  /\ policy.kind = "consecutive" /\ policy.n = 2
  /\ last.a = "FailTrip" /\ ~Sent("Tripped", last.ev)
  /\ failures = 2 /\ hist.row = 1 /\ successes > 0 /\ ~Tripped

\* C15: on a rate breaker (rate num / den, minSamples n) driven by one thread
\* a Fail() trips the breaker exactly when, with that failure counted,
\* failures + successes >= n and failures / (failures + successes) >= num / den.
C15_RatePolicy ==
  [][(policy.kind = "rate" /\ last'.a = "FailTrip")
       => /\ Sent("Tripped", last'.ev)
               <=> /\ hist.fails + successes >= policy.n
                   /\ hist.fails * policy.den
                        >= policy.num * (hist.fails + successes)
          /\ Sent("Tripped", last'.ev) => Tripped'
          /\ hist.fails + successes < policy.n => ~Tripped']_vars

\* C15 witness: on the rate breaker (1/2, 2) a Fail() has just tripped the
\* breaker at an error rate of exactly 1/2 over two samples.
C15_Witness ==
  /\ policy.kind = "rate" /\ policy.n = 2
  /\ last.a = "FailTrip" /\ Sent("Tripped", last.ev)
  /\ failures = 1 /\ successes = 1 /\ Tripped

\* C16: while no sample is recorded (failures + successes = 0, as on a new
\* breaker or after Reset()), ErrorRate() of the breaker is 0, and so is
\* ErrorRate() of a window that holds no sample; neither is NaN.
C16_ErrorRateNoSamples ==
  (\A t \in Active : pc[t] = "idle") /\ failures + successes = 0
    => ZeroRate(ErrorRate) /\ ZeroRate(WindowErrorRate(0, 0))

\* threads inside a Call past its select
PastSelect ==
  {t \in Threads : pc[t] \in {"call_check", "call_fail", "call_fail_trip",
                              "call_succ", "call_succ_end"}}

\* threads inside a Call whose select has timed out while the circuit had
\* not returned
TimedOut == {t \in PastSelect : bg[t] \in {"running", "late"}}

\* threads inside a Call that has taken a non-nil error from the circuit
OpFailed ==
  {t \in PastSelect : bg[t] \in {"none", "closed"} /\ err[t] = "opErr"}

\* C17: a Call whose timeout has elapsed while the circuit had not returned
\* goes on to Fail() and nowhere else: failures and consecFailures grow by one
\* each with one Fail event, ShouldTrip is consulted (a threshold-1 breaker is
\* tripped) and ErrBreakerTimeout is returned.
C17_TimeoutCountsAsFailure ==
  [][\A t \in TimedOut :
       (last'.t = t /\ last'.a # "BgReturn")
         => CASE pc[t] = "call_check" ->
                   /\ pc'[t] = "call_fail"
                   /\ failures' = failures /\ consecFailures' = consecFailures
              [] pc[t] = "call_fail" ->
                   /\ pc'[t] = "call_fail_trip"
                   /\ failures' = failures + 1
                   /\ consecFailures' = consecFailures + 1
                   /\ last'.ev = <<"Fail">>
              [] pc[t] = "call_fail_trip" ->
                   /\ pc'[t] = "idle"
                   /\ last'.r = "ErrBreakerTimeout"
                   /\ failures' = failures /\ consecFailures' = consecFailures
                   /\ Sent("Tripped", last'.ev) <=> ShouldTrip(Failures, ConsecFailures)
                   /\ (policy.kind = "threshold" /\ policy.n = 1) => Tripped'
              [] OTHER -> FALSE]_vars

\* C18: once the select of a Call has timed out while the circuit had not
\* returned, the circuit's return in the background changes neither the error
\* Call is about to return nor any field of the breaker, and Call does not
\* take the success path.
C18_LateResultDiscarded ==
  /\ [](\A t \in TimedOut :
          err[t] = "ErrBreakerTimeout" /\ pc[t] \notin {"call_succ", "call_succ_end"})
  /\ [][\A t \in Threads :
          (t \in PastSelect /\ bg[t] = "running"
             /\ last'.a = "BgReturn" /\ last'.t = t)
            => (err'[t] = err[t] /\ shared' = shared)]_vars

\* C19: a Call that has taken a non-nil error from the circuit (run in its own
\* goroutine or, with a timeout, received before the timeout) does not start
\* the circuit again, records one failure (failures and consecFailures grow by
\* one each, one Fail event) and returns that error.
C19_OpErrorReturned ==
  [][\A t \in OpFailed :
       last'.t = t
         => /\ bg'[t] # "running"
            /\ CASE pc[t] = "call_check" ->
                      /\ pc'[t] = "call_fail"
                      /\ err'[t] = "opErr"
                      /\ failures' = failures /\ consecFailures' = consecFailures
                 [] pc[t] = "call_fail" ->
                      /\ pc'[t] = "call_fail_trip"
                      /\ err'[t] = "opErr"
                      /\ failures' = failures + 1
                      /\ consecFailures' = consecFailures + 1
                      /\ last'.ev = <<"Fail">>
                 [] pc[t] = "call_fail_trip" ->
                      /\ pc'[t] = "idle"
                      /\ last'.r = "opErr"
                      /\ failures' = failures /\ consecFailures' = consecFailures
                 [] OTHER -> FALSE]_vars

\* C19 witness: a Call admitted on a half-open read of a tripped breaker has
\* just returned the circuit's error, with the latch cleared.
C19_Witness ==
  /\ last.a = "FailTrip" /\ last.r = "opErr" /\ last.s = "halfopen"
  /\ failures = 2 /\ tripped = 1 /\ halfOpens = 0

\* C20: a CallContext whose context is cancelled returns a non-nil error,
\* sends neither Fail nor Tripped and leaves Failures(), ConsecFailures() and
\* Tripped() as they were; on a threshold-2 breaker the failing call that
\* brings Failures() to 2, and no cancelled one, trips the breaker.
C20_CancelledNotAFailure ==
  /\ [][last'.a = "CallCancel"
          => /\ last'.r = "Cancelled"
             /\ last'.ev = <<>>
             /\ Failures' = Failures /\ ConsecFailures' = ConsecFailures
             /\ Tripped' <=> Tripped]_vars
  /\ [][(policy.kind = "threshold" /\ policy.n = 2 /\ ~Tripped)
          => (Tripped' <=> \/ last'.a \in {"Trip", "Break"}
                           \/ last'.a = "FailTrip" /\ Failures = 2)]_vars

\* C20 witness: on a threshold-2 breaker with one failure recorded, a
\* CallContext has just returned the cancellation and the breaker is not
\* tripped.
C20_Witness ==
  /\ policy.kind = "threshold" /\ policy.n = 2
  /\ last.a = "CallCancel" /\ last.r = "Cancelled"
  /\ failures = 1 /\ consecFailures = 1 /\ ~Tripped

\* the kinds of the events of q, in the order of q
Kinds(q) == [i \in DOMAIN q |-> q[i].e]

\* C21: with one thread calling Trip, Ready, Reset and Fail and a channel
\* that is never full, the events the subscriber has received, followed by
\* those still on their way, are all the events sent since Subscribe(), in
\* the order they were sent: an operation that sends an event puts it last and
\* no other step changes that sequence.  In particular Subscribe; Trip;
\* Ready; Reset; Fail gives the subscriber Tripped, Ready, Reset, Fail.
C21_PerProducerFifo ==
  /\ [](Len(Pipeline) = bus.n /\ \A i \in DOMAIN Pipeline : Pipeline[i].id = i)
  /\ [][IF bus.on /\ last'.ev # <<>>
          THEN Kinds(Pipeline') = Append(Kinds(Pipeline), last'.ev[1])
          ELSE Pipeline' = Pipeline]_vars

\* C21 witness: the subscriber has received Tripped, Ready, Reset, Fail, all
\* that was sent, and the last of them was sent by Fail().
C21_Witness ==
  /\ Kinds(bus.got) = <<"Tripped", "Ready", "Reset", "Fail">>
  /\ bus.n = 4 /\ bus.output = <<>> /\ failures = 1

\* C22: the goroutine that forwards the events never waits forever, so that
\* no Trip, Reset, Fail or Ready waits forever in sendEvent.  The goroutine is
\* the only sender on output: once it stands at <-output with output empty
\* nothing can wake it, and every later sendEvent waits for it in vain.  So
\* that state is never reached, whenever the subscriber chooses to receive.
C22_ForwarderNeverStuck ==
  ~(bus.on /\ bus.fpc = "drop" /\ bus.output = <<>>)

\* the events sent since Subscribe() whose numbers are m + 1 .. n
LastSent(m) == [i \in 1..(bus.n - m) |-> m + i]

\* C23: the subscriber's channel never holds more than Capacity events; the
\* event the goroutine takes out of a full channel is the oldest one in it and
\* the new event is then put last; while the subscriber has received nothing,
\* the channel holds, whenever the goroutine is back at its receive, the last
\* Capacity events sent (all of them if fewer were sent), oldest first.
C23_LossyOverflowKeepsNewest ==
  /\ [](Len(bus.output) <= Capacity)
  /\ []((~bus.read /\ bus.fpc = "recv")
          => [i \in DOMAIN bus.output |-> bus.output[i].id]
               = LastSent(IF bus.n > Capacity THEN bus.n - Capacity ELSE 0))
  /\ [][/\ last'.a = "FwdDrop"
             => /\ Len(bus.output') = Len(bus.output) - 1
                /\ bus.output' = Tail(bus.output)
        /\ last'.a = "FwdPut"
             => /\ bus.output' = Append(bus.output, bus.v)
                /\ bus.fpc' = "recv"]_vars

\* C23 witness: the subscriber has received nothing, more events were sent
\* than the channel holds, and the full channel ends with the last event sent.
C23_Witness ==
  /\ ~bus.read /\ bus.fpc = "recv" /\ bus.n = Capacity + 2
  /\ Len(bus.output) = Capacity
  /\ bus.output[1].id = 3 /\ bus.output[Capacity].id = bus.n

\* C24: a Reset() of a breaker that is not tripped sends no event to the
\* subscriber; a Reset() of a tripped breaker sends exactly one Reset event.
C24_ResetEventIffTripped ==
  [][(bus.on /\ last'.a = "Reset")
       => Kinds(Pipeline') = IF tripped = 1
                               THEN Append(Kinds(Pipeline), "Reset")
                               ELSE Kinds(Pipeline)]_vars

\* C25: a state read by Ready() or Call that answers half-open, and so takes
\* the next interval from the back-off policy, never leaves nextBackOff
\* smaller than the interval that had just been waited for.
C25_BackOffMonotone ==
  [][(last'.a \in {"ReadyBegin", "CallBegin"} /\ last'.s = "halfopen")
       => nextBackOff' >= nextBackOff]_vars

\* C26: Trip() leaves the breaker tripped with the time of the call as its
\* last failure and touches nothing else; so a Trip() of a breaker that a
\* Trip() at the same clock reading left behind changes no field of the
\* breaker, and its only effect is one more Tripped event for the subscriber.
C26_TripIdempotent ==
  [][last'.a = "Trip"
       => /\ tripped' = 1 /\ lastFailure' = now /\ now' = now
          /\ (tripped = 1 /\ lastFailure = now) => shared' = shared
          /\ <<broken, failures, consecFailures, successes, halfOpens,
               nextBackOff, boIdx>>'
               = <<broken, failures, consecFailures, successes, halfOpens,
                   nextBackOff, boIdx>>
          /\ bus.on => Kinds(Pipeline') = Append(Kinds(Pipeline), "Tripped")]_vars

\* C26 witness: two Trip() calls at clock reading 0 and nothing else; the
\* subscriber is sent two Tripped events.
C26_Witness ==
  /\ last.a = "Trip" /\ now = 0 /\ tripped = 1 /\ lastFailure = 0
  /\ Kinds(Pipeline) = <<"Tripped", "Tripped">>

\* C27: a Fail or Success that comes more than one bucket time after the
\* Fail or Success before it finds a current bucket that was reset in
\* between, so that this bucket counts the new record alone; and one that
\* comes after more than the whole span of the window finds every bucket
\* reset, so that Failures() and Successes() count the new record alone.
C27_IdleRotationResets ==
  [][(last'.a \in {"WindowFail", "WindowSuccess"})
       => /\ now - window.lastOp > BucketTime
               => LET b == window'.buckets[window'.idx]
                  IN  b.failure + b.success = 1
          /\ now - window.lastOp > WindowBuckets * BucketTime
               => WindowFailures(window') + WindowSuccesses(window') = 1]_vars

\* the buckets of w in the order of the ring, the current one first
RingOrder(w) ==
  [i \in 1..Len(w.buckets) |->
     w.buckets[((w.idx + i - 2) % Len(w.buckets)) + 1]]

\* C28: Failures() is the sum of the failure counts of the WindowBuckets
\* buckets, in whichever order they are visited, and Successes() the sum of
\* their success counts; as long as no bucket was
\* moved on to since newWindow or the last Reset(), they are the numbers of
\* Fail() and Success() calls made since; Reset() makes both 0.
C28_WindowSumLaw ==
  /\ [](window.mode # "off"
          => /\ WindowFailures(window)
                  = SumFailures(RingOrder(window), WindowBuckets)
             /\ WindowSuccesses(window)
                  = SumSuccesses(RingOrder(window), WindowBuckets)
             /\ ~window.rot => /\ WindowFailures(window) = window.fs
                               /\ WindowSuccesses(window) = window.ss)
  /\ [][last'.a = "WindowReset"
          => WindowFailures(window') = 0 /\ WindowSuccesses(window') = 0]_vars

\* C28 witness: two Fail() and two Success() calls with no bucket moved on to
\* in between; Failures() and Successes() are both 2.
C28_Witness ==
  /\ window.mode # "off" /\ ~window.rot
  /\ window.fs = 2 /\ window.ss = 2 /\ last.a \in {"WindowFail", "WindowSuccess"}
  /\ WindowFailures(window) = 2 /\ WindowSuccesses(window) = 2

\* C29: Get(name) answers the breaker added last under name and true, or the
\* no-op breaker and false for a name never added, and leaves the entries of
\* the panel as they were; the no-op breaker never reports tripped and is
\* always ready, Trip() or not, and its Call returns what the function it
\* was given returns, having run it.
C29_PanelGet ==
  /\ [](TrippedOf(NoOp) = FALSE /\ ReadyOf(NoOp) = TRUE)
  /\ [][/\ last'.a = "Get"
             => /\ panel'.circuits = panel.circuits
                /\ panel'.got = IF panel'.arg \in DOMAIN panel.latest
                                  THEN [cb |-> panel.latest[panel'.arg], ok |-> TRUE]
                                  ELSE [cb |-> NoOp, ok |-> FALSE]
        /\ last'.a = "GotCall"
             => panel'.op \in OpResults /\ last'.r = panel'.op]_vars

\* C29 witness: "a" was added twice, with breaker 1 and then with breaker 2;
\* Get("a") has answered breaker 2 and Get("missing") the no-op, on which
\* Trip() was then called.
C29_Witness ==
  /\ panel.on /\ panel.subs = Breakers
  /\ DOMAIN panel.circuits = {"a"} /\ panel.circuits["a"] = 2
  /\ panel.trip = {2}
  /\ panel.got = [cb |-> NoOp, ok |-> FALSE] /\ panel.arg = "missing"
  /\ last.a = "GotTrip"

\* C30: the panel GetAll(names...) returns has exactly the given names as its
\* entries, a name of the source panel with the breaker it has there and any
\* other name with the no-op breaker; the source panel's entries are as they
\* were.
C30_PanelGetAll ==
  [][last'.a = "GetAll"
       => /\ DOMAIN panel'.sub = {panel'.names[i] : i \in DOMAIN panel'.names}
          /\ \A n \in DOMAIN panel'.sub :
               panel'.sub[n] = IF n \in DOMAIN panel.circuits
                                 THEN panel.circuits[n]
                                 ELSE NoOp
          /\ panel'.circuits = panel.circuits]_vars

\* C30 witness: GetAll("a", "missing") on a panel that holds breaker 1 under
\* "a" has returned a panel with both names.
C30_Witness ==
  /\ last.a = "GetAll" /\ panel.names = <<"a", "missing">>
  /\ DOMAIN panel.circuits = {"a"} /\ panel.circuits["a"] = 1
  /\ DOMAIN panel.sub = {"a", "missing"}
  /\ panel.sub["a"] = 1 /\ panel.sub["missing"] = NoOp

\* C34: a Ready() that reads the state as closed returns true and one that
\* reads it as open returns false, both without sending an event; a Ready()
\* that reads it as half-open goes on to send one Ready event and to return
\* true; and Ready() sends the Ready event in no other case.
C34_ReadyResultAndEvent ==
  [][/\ last'.a = "ReadyBegin"
          => /\ last'.s = StateRead /\ last'.ev = <<>>
             /\ last'.s = "closed" => (last'.r = "true" /\ pc' = pc)
             /\ last'.s = "open" => (last'.r = "false" /\ pc' = pc)
             /\ last'.s = "halfopen"
                  => (last'.r = "none" /\ pc'[last'.t] = "ready_rel")
     /\ last'.a = "ReadyRelease"
          => /\ pc[last'.t] = "ready_rel" /\ st[last'.t] = "halfopen"
             /\ last'.s = "halfopen" /\ last'.ev = <<"Ready">>
             /\ last'.r = "true"]_vars

\* C34 witness: a Ready() that read the state of a tripped breaker as
\* half-open has sent the Ready event and returned true.
C34_Witness ==
  /\ last.a = "ReadyRelease" /\ last.s = "halfopen" /\ last.r = "true"
  /\ last.ev = <<"Ready">> /\ tripped = 1 /\ halfOpens = 0

\* C36: a tripped breaker stops being tripped only in Reset() or in the
\* Success() of a probe, that is of a Call admitted on a half-open read or of
\* the caller to whom Ready() has just answered true on a half-open read; the
\* state read of any other Success() neither takes the latch nor is
\* half-open, and the Success() of a Call admitted on a closed read leaves
\* tripped as it was.
C36_OnlyProbeSuccessCloses ==
  [][/\ (tripped = 1 /\ tripped' = 0) => last'.a \in {"Reset", "SuccessEnd"}
     /\ (/\ last'.a \in {"SuccessBegin", "CallSuccess"}
         /\ st[last'.t] # "halfopen"
         /\ ~(last'.a = "SuccessBegin" /\ obs = "ready"))
          => /\ halfOpens' = halfOpens
             /\ sst'[last'.t] # "halfopen"
     /\ (/\ last'.a = "SuccessEnd" /\ pc[last'.t] = "call_succ_end"
         /\ st[last'.t] # "halfopen")
          => tripped' = tripped]_vars

\* C39: with one goroutine using the breaker, ConsecFailures() is never
\* negative and never more than Failures(); every Fail(), called directly or
\* by Call, adds exactly one to both, sends exactly one Fail event and leaves
\* Successes() as it was.
C39_CounterInvariant ==
  /\ [](0 <= ConsecFailures /\ ConsecFailures <= Failures /\ 0 <= Successes)
  /\ [][last'.a \in {"FailBegin", "CallFail"}
          => /\ Failures' = Failures + 1
             /\ ConsecFailures' = ConsecFailures + 1
             /\ Successes' = Successes
             /\ last'.ev = <<"Fail">>]_vars
  /\ [][last'.a = "FailTrip"
          => /\ Failures' = Failures /\ ConsecFailures' = ConsecFailures
             /\ Successes' = Successes
             /\ ~Sent("Fail", last'.ev)]_vars

\* C39 witness: Call has just counted a failure, the second since the
\* breaker was made; a Success() between the two has left one consecutive
\* failure.
C39_Witness ==
  /\ last.a = "CallFail" /\ last.ev = <<"Fail">>
  /\ Failures = 2 /\ ConsecFailures = 1 /\ Successes = 1

\* C35: no Ready() or Call that finds the breaker tripped reads a last
\* failure time that was never stored, and none reads the state as half-open
\* while a Trip() that has stored tripped has not yet stored its time (the
\* time that Trip() will store is not earlier than the read).
C35_TripVisibleBeforeAdmission ==
  [][/\ last'.a # "StatePanic"
     /\ (last'.a \in {"ReadyBegin", "CallBegin"} /\ last'.s = "halfopen")
          => \A t \in Threads : pc[t] # "trip_stamp"]_vars

\* the number of events of kind k in q
CountKind(q, k) == Cardinality({i \in DOMAIN q : q[i].e = k})

\* C31: each counter of the panel equals the number of events of its kind
\* the goroutine of Add has received, which are the first of those the
\* breaker has sent; every handled event adds one to the counter of its kind
\* and to no other; and every event the breaker sends is in the end received
\* and counted.
C31_PanelTelemetry ==
  /\ [](\A k \in EventKinds :
          /\ panel.stat[k] = CountKind(bus.got, k)
          /\ panel.stat[k] <= CountKind(Pipeline, k))
  /\ [][last'.a = "Dispatch"
          => \A k \in EventKinds :
               panel'.stat[k] = panel.stat[k]
                 + (IF Head(bus.output).e = k THEN 1 ELSE 0)]_vars
  /\ \A n \in 1..MaxEvents : (bus.n >= n) ~> (Len(bus.got) >= n)

\* C31 witness: Fail(); Trip(); wait; Ready(); Reset() has left each of the
\* four counters at 1.
C31_Witness ==
  /\ Kinds(bus.got) = <<"Fail", "Tripped", "Ready", "Reset">>
  /\ \A k \in EventKinds : panel.stat[k] = 1
  /\ now > 0

\* C32: the handler of a Tripped event stamps the name with the current
\* time; the handler of a Reset event records one trip-time timing, the
\* current time less the stamp, and clears the stamp if there is one, and
\* records nothing if there is none; the handlers of Fail and Ready touch
\* neither.  So there are never more timings than Tripped events handled.
C32_PanelTripTime ==
  /\ [](panel.ntimes <= panel.stat["Tripped"])
  /\ [][last'.a = "Dispatch"
          => LET e == Head(bus.output).e
             IN  /\ e = "Tripped"
                      => /\ panel'.stamp = now
                         /\ panel'.ntimes = panel.ntimes
                         /\ panel'.timing = panel.timing
                 /\ (e = "Reset" /\ panel.stamp # NoTime)
                      => /\ panel'.ntimes = panel.ntimes + 1
                         /\ panel'.timing = now - panel.stamp
                         /\ panel'.stamp = NoTime
                 /\ (e = "Reset" /\ panel.stamp = NoTime)
                      => /\ panel'.ntimes = panel.ntimes
                         /\ panel'.timing = panel.timing
                         /\ panel'.stamp = NoTime
                 /\ e \in {"Fail", "Ready"}
                      => /\ panel'.ntimes = panel.ntimes
                         /\ panel'.timing = panel.timing
                         /\ panel'.stamp = panel.stamp]_vars

\* C32 witness: a Tripped event and two Reset events were handled; the first
\* Reset recorded a trip time of one unit, the second has just recorded none.
C32_Witness ==
  /\ last.a = "Dispatch"
  /\ Kinds(bus.got) = <<"Tripped", "Reset", "Reset">>
  /\ panel.ntimes = 1 /\ panel.timing = 1 /\ panel.stamp = NoTime

\* ------------------------------------------------------------ panel locks
\* a panel used by the goroutines of Threads; Add has started no goroutine
InitLocks ==
  /\ InitShared
  /\ bus = BusNone
  /\ policy = [kind |-> "none", n |-> 0]
  /\ pc = [t \in Threads |-> "off"]
  /\ obs = "off"
  /\ hist = HistOff
  /\ window = WindowOff
  /\ panel = [NewPanel EXCEPT !.lk = NewLocks]

\* the names under which breakers are added
LockNames == {"a"}

\* goroutine t runs the statement a; the panel's maps and locks become k
LockStep(t, a, k) ==
  /\ panel' = [panel EXCEPT !.lk = k]
  /\ MarkOther(a, "none")
  /\ UNCHANGED <<untouched, now, window>>

\* Add: p.panelLock.Lock()
AddLock(t, name, cb) ==
  /\ panel.lk.pcs[t] = "idle"
  /\ panel.lk.started < MaxGoroutines
  /\ CanAnnounce(panel.lk.panelLock)
  /\ LockStep(t, "AddLock",
       [panel.lk EXCEPT !.pcs[t] = "add_locking", !.name[t] = name,
                        !.cb[t] = cb, !.started = @ + 1,
                        !.panelLock = Announce(@, t)])

AddLocked(t) ==
  /\ panel.lk.pcs[t] = "add_locking"
  /\ CanLock(panel.lk.panelLock, t)
  /\ LockStep(t, "AddLocked",
       [panel.lk EXCEPT !.pcs[t] = "add_write",
                        !.panelLock = Lock(@, t)])

\* Add: p.circuits[name] = cb
AddWrite(t) ==
  /\ panel.lk.pcs[t] = "add_write"
  /\ LockStep(t, "AddWrite",
       [panel.lk EXCEPT !.pcs[t] = "add_unlock",
                        !.circuits = MapAdd(@, panel.lk.name[t],
                                            panel.lk.cb[t])])

\* Add: p.panelLock.Unlock()
AddUnlock(t) ==
  /\ panel.lk.pcs[t] = "add_unlock"
  /\ LockStep(t, "AddUnlock",
       [panel.lk EXCEPT !.pcs[t] = "add_subscribe",
                        !.panelLock = Unlock(@)])

\* Add: events := cb.Subscribe(); go func() {...}()
AddSubscribe(t) ==
  /\ panel.lk.pcs[t] = "add_subscribe"
  /\ \E g \in Goroutines :
       /\ panel.lk.pcs[g] = "off"
       /\ \A h \in Goroutines : h < g => panel.lk.pcs[h] # "off"
       /\ LockStep(t, "AddSubscribe",
            [panel.lk EXCEPT !.pcs[t] = "idle", !.pcs[g] = "receive",
                             !.name[g] = panel.lk.name[t],
                             !.name[t] = "", !.cb[t] = NoOp])

\* Get: p.panelLock.RLock()
GetRLock(t, name) ==
  /\ panel.lk.pcs[t] = "idle"
  /\ CanRLock(panel.lk.panelLock)
  /\ LockStep(t, "GetRLock",
       [panel.lk EXCEPT !.pcs[t] = "get_read", !.name[t] = name,
                        !.panelLock = RLock(@, t)])

\* Get: cb, ok := p.circuits[name]
GetRead(t) ==
  /\ panel.lk.pcs[t] = "get_read"
  /\ LockStep(t, "GetRead",
       [panel.lk EXCEPT !.pcs[t] = "get_runlock",
                        !.cb[t] = PanelGet(panel.lk.circuits,
                                           panel.lk.name[t]).cb])

\* Get: p.panelLock.RUnlock(); return
GetRUnlock(t) ==
  /\ panel.lk.pcs[t] = "get_runlock"
  /\ LockStep(t, "GetRUnlock",
       [panel.lk EXCEPT !.pcs[t] = "idle", !.name[t] = "", !.cb[t] = NoOp,
                        !.panelLock = RUnlock(@, t)])

\* the statement the goroutine of Add runs after the Counter of the handler
\* of e
Handler(e) ==
  CASE e = "Tripped" -> "tripped_lock"
    [] e = "Reset" -> "reset_rlock"
    [] OTHER -> "receive"

\* the goroutine of Add: e := <-events; switch e; Statter.Counter
Receive(g, e) ==
  /\ panel.lk.pcs[g] = "receive"
  /\ LockStep(g, "Receive", [panel.lk EXCEPT !.pcs[g] = Handler(e)])

\* breakerTripped: p.tripTimesLock.Lock()
TrippedLock(g) ==
  /\ panel.lk.pcs[g] = "tripped_lock"
  /\ CanAnnounce(panel.lk.tripTimesLock)
  /\ LockStep(g, "TrippedLock",
       [panel.lk EXCEPT !.pcs[g] = "tripped_locking",
                        !.tripTimesLock = Announce(@, g)])

TrippedLocked(g) ==
  /\ panel.lk.pcs[g] = "tripped_locking"
  /\ CanLock(panel.lk.tripTimesLock, g)
  /\ LockStep(g, "TrippedLocked",
       [panel.lk EXCEPT !.pcs[g] = "tripped_write",
                        !.tripTimesLock = Lock(@, g)])

\* breakerTripped: p.lastTripTimes[name] = time.Now()
TrippedWrite(g) ==
  /\ panel.lk.pcs[g] = "tripped_write"
  /\ LockStep(g, "TrippedWrite",
       [panel.lk EXCEPT !.pcs[g] = "tripped_unlock",
                        !.lastTripTimes = MapAdd(@, panel.lk.name[g], now)])

\* breakerTripped: p.tripTimesLock.Unlock()
TrippedUnlock(g) ==
  /\ panel.lk.pcs[g] = "tripped_unlock"
  /\ LockStep(g, "TrippedUnlock",
       [panel.lk EXCEPT !.pcs[g] = "receive",
                        !.tripTimesLock = Unlock(@)])

\* breakerReset: p.tripTimesLock.RLock()
ResetRLock(g) ==
  /\ panel.lk.pcs[g] = "reset_rlock"
  /\ CanRLock(panel.lk.tripTimesLock)
  /\ LockStep(g, "ResetRLock",
       [panel.lk EXCEPT !.pcs[g] = "reset_read",
                        !.tripTimesLock = RLock(@, g)])

\* breakerReset: lastTrip := p.lastTripTimes[name]
ResetRead(g) ==
  /\ panel.lk.pcs[g] = "reset_read"
  /\ LockStep(g, "ResetRead",
       [panel.lk EXCEPT !.pcs[g] = "reset_runlock",
                        !.seen[g] = LastTrip(panel.lk.lastTripTimes,
                                             panel.lk.name[g])])

\* breakerReset: p.tripTimesLock.RUnlock(); if !lastTrip.IsZero()
ResetRUnlock(g) ==
  /\ panel.lk.pcs[g] = "reset_runlock"
  /\ LockStep(g, "ResetRUnlock",
       [panel.lk EXCEPT !.pcs[g] = IF panel.lk.seen[g] # NoTime
                                     THEN "reset_lock" ELSE "receive",
                        !.tripTimesLock = RUnlock(@, g)])

\* breakerReset: Statter.Timing; p.tripTimesLock.Lock()
ResetLock(g) ==
  /\ panel.lk.pcs[g] = "reset_lock"
  /\ CanAnnounce(panel.lk.tripTimesLock)
  /\ LockStep(g, "ResetLock",
       [panel.lk EXCEPT !.pcs[g] = "reset_locking",
                        !.tripTimesLock = Announce(@, g)])

ResetLocked(g) ==
  /\ panel.lk.pcs[g] = "reset_locking"
  /\ CanLock(panel.lk.tripTimesLock, g)
  /\ LockStep(g, "ResetLocked",
       [panel.lk EXCEPT !.pcs[g] = "reset_write",
                        !.tripTimesLock = Lock(@, g)])

\* breakerReset: p.lastTripTimes[name] = time.Time{}
ResetWrite(g) ==
  /\ panel.lk.pcs[g] = "reset_write"
  /\ LockStep(g, "ResetWrite",
       [panel.lk EXCEPT !.pcs[g] = "reset_unlock",
                        !.lastTripTimes = MapAdd(@, panel.lk.name[g],
                                                 NoTime)])

\* breakerReset: p.tripTimesLock.Unlock()
ResetUnlock(g) ==
  /\ panel.lk.pcs[g] = "reset_unlock"
  /\ LockStep(g, "ResetUnlock",
       [panel.lk EXCEPT !.pcs[g] = "receive",
                        !.seen[g] = NoTime,
                        !.tripTimesLock = Unlock(@)])

NextLocks ==
  \/ \E t \in Threads, name \in LockNames, cb \in Breakers :
       AddLock(t, name, cb)
  \/ \E t \in Threads : AddLocked(t)
  \/ \E t \in Threads : AddWrite(t)
  \/ \E t \in Threads : AddUnlock(t)
  \/ \E t \in Threads : AddSubscribe(t)
  \/ \E t \in Threads, name \in LockNames \cup {"missing"} :
       GetRLock(t, name)
  \/ \E t \in Threads : GetRead(t)
  \/ \E t \in Threads : GetRUnlock(t)
  \/ \E g \in Goroutines, e \in EventKinds : Receive(g, e)
  \/ \E g \in Goroutines : TrippedLock(g)
  \/ \E g \in Goroutines : TrippedLocked(g)
  \/ \E g \in Goroutines : TrippedWrite(g)
  \/ \E g \in Goroutines : TrippedUnlock(g)
  \/ \E g \in Goroutines : ResetRLock(g)
  \/ \E g \in Goroutines : ResetRead(g)
  \/ \E g \in Goroutines : ResetRUnlock(g)
  \/ \E g \in Goroutines : ResetLock(g)
  \/ \E g \in Goroutines : ResetLocked(g)
  \/ \E g \in Goroutines : ResetWrite(g)
  \/ \E g \in Goroutines : ResetUnlock(g)

SpecLocks == InitLocks /\ [][NextLocks]_vars

\* the lock a goroutine at statement s is about to take, and how
LockAt(k, s) ==
  IF s \in {"add_locking"} THEN k.panelLock ELSE k.tripTimesLock

\* goroutine t is inside Add, Get or a handler
Busy(k, t) == k.pcs[t] \notin {"off", "idle", "receive"}

\* goroutine t, inside Add, Get or a handler, can run its next statement
CanStep(k, t) ==
  CASE k.pcs[t] \in {"tripped_lock", "reset_lock"}
         -> CanAnnounce(k.tripTimesLock)
    [] k.pcs[t] \in {"add_locking", "tripped_locking", "reset_locking"}
         -> CanLock(LockAt(k, k.pcs[t]), t)
    [] k.pcs[t] = "reset_rlock" -> CanRLock(k.tripTimesLock)
    [] OTHER -> TRUE

\* goroutine t holds lock l or has called Lock on it
Owns(l, t) == Holds(l, t) \/ l.a = t

\* C33: no goroutine ever holds panelLock and tripTimesLock at once, and
\* there is no deadlock: a lock is only ever owned by a goroutine that is
\* inside Add, Get or a handler, and whenever some goroutine is inside one of
\* these, one of them can run its next statement (each runs finitely many
\* statements, so every one of them returns and every waiting one gets in).
C33_PanelLocking ==
  /\ \A t \in LockThreads :
       ~(Owns(panel.lk.panelLock, t) /\ Owns(panel.lk.tripTimesLock, t))
  /\ \A t \in LockThreads :
       (Owns(panel.lk.panelLock, t) \/ Owns(panel.lk.tripTimesLock, t))
         => Busy(panel.lk, t)
  /\ (\E t \in LockThreads : Busy(panel.lk, t))
       => \E t \in LockThreads : Busy(panel.lk, t) /\ CanStep(panel.lk, t)

\* C33 witness: one goroutine holds panelLock inside Add, the other one that
\* calls Add and Get cannot take panelLock, and a goroutine that Add started
\* holds tripTimesLock inside breakerTripped.
C33_Witness ==
  /\ panel.lk.pcs[1] = "add_write"
  /\ panel.lk.pcs[2] = "idle" /\ ~CanRLock(panel.lk.panelLock)
  /\ \E g \in Goroutines : panel.lk.pcs[g] = "tripped_write"

\* ------------------------------------------------ TimeoutBreaker (v1.x)
\* TimeoutBreaker of src/circuitbreaker.go: a ThresholdBreaker, which is a
\* FrequencyBreaker with Duration 0 on a TrippableBreaker with ResetTimeout.
\* tripped, broken, failures, lastFailure and halfOpens are the fields of
\* the TrippableBreaker; policy.n is Threshold and policy.timeout is Timeout;
\* the counter resets, which only Resets() reads, is left out.  hist.fails
\* is Failures() when the Call in progress began and hist.done the number of
\* calls, since the count was last zeroed, whose function returned an error
\* or ran out of time; hist.row is 1 once a call has run out of time.
TimeoutPolicies ==
  {[kind |-> "timeout", n |-> n, timeout |-> d] :
     n \in 1..MaxCount, d \in {NoTimeout, 1}}

\* NewTimeoutBreaker(timeout, threshold), used by one goroutine
InitTimeout ==
  /\ InitBreaker
  /\ policy \in TimeoutPolicies
  /\ pc = [t \in Threads |-> IF t = 1 THEN "idle" ELSE "off"]
  /\ obs = "off"
  /\ hist = HistOn

\* TrippableBreaker.state()
TrippableState ==
  IF tripped = 1
    THEN IF broken = 1 THEN "open"
         ELSE IF now - lastFailure > ResetTimeout
                THEN IF CasHalfOpens THEN "halfopen" ELSE "open"
                ELSE "open"
    ELSE "closed"

\* FrequencyBreaker.Fail() with Duration 0: TrippableBreaker.Fail(), the
\* count, Trip() when the count meets Threshold
FrequencyFail ==
  /\ lastFailure' = now
  /\ failures' = failures + 1
  /\ tripped' = IF failures + 1 = policy.n THEN 1 ELSE tripped
  /\ broken' = broken

\* TrippableBreaker.Reset()
TrippableReset ==
  /\ broken' = 0
  /\ tripped' = 0
  /\ failures' = 0
  /\ lastFailure' = lastFailure

\* a step of TimeoutBreaker.Call: what it returned and the observer
TimeoutMark(a, t, r, h) ==
  /\ last' = [a |-> a, t |-> t, ev |-> <<>>, r |-> r, s |-> "none"]
  /\ hist' = h
  /\ UNCHANGED <<consecFailures, successes, nextBackOff, boIdx, policy, now,
                 sst, obs, bus, window, panel>>

\* TimeoutBreaker.Call up to circuit(): FrequencyBreaker.Call reads the
\* state, in this goroutine (Timeout == 0) or in one of its own, and returns
\* ErrBreakerOpen when it is open
TimeoutCallBegin(t) ==
  /\ pc[t] = "idle" /\ bg[t] = "none"
  /\ failures < 2 * MaxCount
  /\ LET s == TrippableState
     IN  /\ halfOpens' = IF s = "halfopen" THEN 1 ELSE halfOpens
         /\ st' = [st EXCEPT ![t] = s]
         /\ pc' = [pc EXCEPT ![t] = IF s = "open" THEN "idle" ELSE "circuit"]
         /\ err' = [err EXCEPT ![t] = IF s = "open" THEN "ErrBreakerOpen"
                                      ELSE "nil"]
         /\ TimeoutMark("TimeoutCallBegin", t,
                        IF s = "open" THEN "ErrBreakerOpen" ELSE "none",
                        [hist EXCEPT !.fails = failures])
  /\ UNCHANGED <<tripped, broken, failures, lastFailure, bg>>

\* FrequencyBreaker.Call after circuit() returned e, the state read was s
FrequencyCallEnd(e, s) ==
  /\ halfOpens' = IF e # "nil" /\ s = "halfopen" THEN 0 ELSE halfOpens
  /\ IF e # "nil" THEN FrequencyFail ELSE TrippableReset

\* circuit() returns e before the time is out; FrequencyBreaker.Call ends
TimeoutOpReturn(t, e) ==
  /\ pc[t] = "circuit"
  /\ FrequencyCallEnd(e, st[t])
  /\ pc' = [pc EXCEPT ![t] = "select"]
  /\ err' = [err EXCEPT ![t] = e]
  /\ TimeoutMark("TimeoutOpReturn", t, "none",
                 [hist EXCEPT !.done = IF e = "nil" THEN 0 ELSE @ + 1])
  /\ UNCHANGED <<st, bg>>

\* case <-c: if err != nil && err != ErrBreakerOpen, with Timeout d
FailAgain(d, e) == d # NoTimeout /\ e # "nil" /\ e # "ErrBreakerOpen"

\* TimeoutBreaker.Call returns err: at once when Timeout == 0, else after
\* case <-c
TimeoutReturn(t) ==
  /\ pc[t] = "select"
  /\ IF FailAgain(policy.timeout, err[t])
       THEN FrequencyFail
       ELSE UNCHANGED <<tripped, broken, failures, lastFailure>>
  /\ pc' = [pc EXCEPT ![t] = "idle"]
  /\ TimeoutMark("TimeoutReturn", t, err[t], hist)
  /\ UNCHANGED <<halfOpens, st, err, bg>>

\* case <-time.After(cb.Timeout): Fail(), return ErrBreakerTimeout; the
\* goroutine that runs circuit() goes on
TimeoutExpire(t) ==
  /\ pc[t] = "circuit" /\ policy.timeout # NoTimeout
  /\ FrequencyFail
  /\ pc' = [pc EXCEPT ![t] = "idle"]
  /\ bg' = [bg EXCEPT ![t] = "circuit"]
  /\ err' = [err EXCEPT ![t] = "ErrBreakerTimeout"]
  /\ TimeoutMark("TimeoutExpire", t, "ErrBreakerTimeout",
                 [hist EXCEPT !.done = @ + 1, !.row = 1])
  /\ UNCHANGED <<halfOpens, st>>

\* circuit() returns e after the time was out; FrequencyBreaker.Call ends
TimeoutBgReturn(t, e) ==
  /\ bg[t] = "circuit"
  /\ FrequencyCallEnd(e, st[t])
  /\ bg' = [bg EXCEPT ![t] = "none"]
  /\ TimeoutMark("TimeoutBgReturn", t, "none",
                 [hist EXCEPT !.done = IF e = "nil" THEN 0 ELSE @])
  /\ UNCHANGED <<pc, st, err>>

NextTimeout ==
  \/ \E t \in Threads : TimeoutCallBegin(t)
  \/ \E t \in Threads, e \in OpResults : TimeoutOpReturn(t, e)
  \/ \E t \in Threads : TimeoutReturn(t)
  \/ \E t \in Threads : TimeoutExpire(t)
  \/ \E t \in Threads, e \in OpResults : TimeoutBgReturn(t, e)
  \/ Tick

SpecTimeout == InitTimeout /\ [][NextTimeout]_vars

\* C38: a TimeoutBreaker.Call whose function returns an error before the
\* time is out leaves the failure count one above what it was when the call
\* began; a call that returns ErrBreakerOpen leaves the count as it was; so
\* the breaker, while no call has run out of time, is tripped only once
\* Threshold calls have failed.
C38_OneFailurePerFailingCall ==
  /\ [][(last'.a = "TimeoutReturn" /\ last'.r = "opErr")
          => failures' = hist.fails + 1]_vars
  /\ [][last'.r = "ErrBreakerOpen" => failures' = failures]_vars
  /\ []((tripped = 1 /\ hist.row = 0) => hist.done >= policy.n)

\* ------------------------------------------------------- eventReceivers
\* a breaker on which the goroutines of Threads subscribe and send events
InitSubscribe ==
  /\ InitShared
  /\ bus = [BusOff EXCEPT !.rcv = NewReceivers]
  /\ policy = [kind |-> "none", n |-> 0]
  /\ pc = [t \in Threads |-> "off"]
  /\ obs = "off"
  /\ hist = HistOff
  /\ window = WindowOff
  /\ panel = PanelOff

\* goroutine t runs the statement a; eventReceivers and its users become k
ReceiverStep(t, a, k) ==
  /\ bus' = [bus EXCEPT !.rcv = k]
  /\ last' = [a |-> a, t |-> t, ev |-> <<>>, r |-> "none", s |-> "none"]
  /\ UNCHANGED <<untouched, now, obs, hist, window, panel>>

\* Subscribe: the channels, the goroutine, and the read of cb.eventReceivers
\* that append makes
SubscribeLoad(t) ==
  /\ bus.rcv.pcs[t] = "idle" /\ t \notin bus.rcv.returned
  /\ ReceiverStep(t, "SubscribeLoad",
       [bus.rcv EXCEPT !.pcs[t] = "subscribe_store",
                       !.loaded[t] = bus.rcv.eventReceivers])

\* Subscribe: cb.eventReceivers = append(..., eventReader); return output
SubscribeStore(t) ==
  /\ bus.rcv.pcs[t] = "subscribe_store"
  /\ ReceiverStep(t, "SubscribeStore",
       [bus.rcv EXCEPT !.pcs[t] = "idle",
                       !.eventReceivers = Append(bus.rcv.loaded[t], t),
                       !.loaded[t] = <<>>,
                       !.returned = @ \cup {t}])

\* sendEvent: range cb.eventReceivers reads the slice once
SendLoad(t) ==
  /\ bus.rcv.pcs[t] = "idle" /\ bus.rcv.sent < MaxEvents
  /\ ReceiverStep(t, "SendLoad",
       [bus.rcv EXCEPT !.pcs[t] = "send",
                       !.loaded[t] = bus.rcv.eventReceivers,
                       !.due[t] = bus.rcv.returned,
                       !.sent = @ + 1])

\* sendEvent: receiver <- event for each receiver of the slice
SendDeliver(t) ==
  /\ bus.rcv.pcs[t] = "send"
  /\ ReceiverStep(t, "SendDeliver",
       [bus.rcv EXCEPT !.pcs[t] = "idle",
                       !.inbox = [i \in Threads |->
                                    IF i \in Receivers(bus.rcv.loaded[t])
                                      THEN @[i] + 1 ELSE @[i]],
                       !.loaded[t] = <<>>,
                       !.due[t] = {}])

NextSubscribe ==
  \/ \E t \in Threads : SubscribeLoad(t)
  \/ \E t \in Threads : SubscribeStore(t)
  \/ \E t \in Threads : SendLoad(t)
  \/ \E t \in Threads : SendDeliver(t)

SpecSubscribe == InitSubscribe /\ [][NextSubscribe]_vars

\* C40: every subscription whose Subscribe() has returned is among the
\* breaker's receivers, and a sendEvent sends its event to every subscriber
\* whose Subscribe() had returned when it began.
C40_SubscriptionNotLost ==
  /\ [](bus.rcv.returned \subseteq Receivers(bus.rcv.eventReceivers))
  /\ [][last'.a = "SendDeliver"
          => \A i \in bus.rcv.due[last'.t] :
               bus'.rcv.inbox[i] = bus.rcv.inbox[i] + 1]_vars

\* --------------------------------------------- window, several goroutines
\* a window of either kind, used by the goroutines of Threads
InitWindowConc ==
  /\ InitShared
  /\ bus = BusNone
  /\ policy = [kind |-> "none", n |-> 0]
  /\ pc = [t \in Threads |-> "off"]
  /\ obs = "off"
  /\ hist = HistOff
  /\ window \in {[NewWindow(m) EXCEPT !.cc = NewConc] : m \in {"lazy", "ticker"}}
  /\ panel = PanelOff

\* goroutine t runs the statement a; the window becomes w
ConcStep(t, a, w) ==
  /\ window' = w
  /\ last' = [a |-> a, t |-> t, ev |-> <<>>, r |-> "none", s |-> "none"]
  /\ UNCHANGED <<untouched, now, obs, hist, bus, panel>>

\* goroutine t returns res from the Failures() or Successes() (k) that began
\* when lo calls of that kind had returned
ConcReturn(t, a, k, lo, res) ==
  /\ last' = [a |-> a, t |-> t, ev |-> <<>>, r |-> "sum", s |-> "none",
              k |-> k, lo |-> lo, res |-> res]
  /\ UNCHANGED <<untouched, now, obs, hist, bus, panel>>

\* b.Fail() or b.Success()
BucketAdd(b, k) == IF k = "failure" THEN BucketFail(b) ELSE BucketSuccess(b)

\* b.Failures() or b.Successes(); b.failure or b.success
BucketCount(b, k) == IF k = "failure" THEN b.failure ELSE b.success

\* the sum over all buckets that Failures() or Successes() makes
WindowSum(w, k) ==
  IF k = "failure" THEN WindowFailures(w) ELSE WindowSuccesses(w)

\* the Fail and Success calls counted by c
Recorded(c) == c.failure + c.success

\* the locked window's Fail() or Success(): Lock, getLatestBucket, the count,
\* Unlock
LockedRecord(t, k) ==
  /\ window.mode = "lazy" /\ window.cc.on /\ window.cc.pcs[t] = "idle"
  /\ Recorded(window.cc.begun) <= MaxCount
  /\ LET w == GetLatestBucket(window, now)
     IN  ConcStep(t, "LockedRecord",
           [w EXCEPT !.buckets[w.idx] = BucketAdd(@, k),
                     !.cc.begun[k] = @ + 1, !.cc.done[k] = @ + 1,
                     !.cc.rots = IF w.idx # window.idx THEN @ + 1 ELSE @])

\* the locked window's Failures() or Successes(): RLock, the sum, RUnlock
LockedSum(t, k) ==
  /\ window.mode = "lazy" /\ window.cc.on /\ window.cc.pcs[t] = "idle"
  /\ window' = window
  /\ ConcReturn(t, "LockedSum", k, window.cc.done[k], WindowSum(window, k))

\* Fail() or Success(): idx := atomic.LoadInt64(&w.bucketIdx)
RecordLoad(t, k) ==
  /\ window.mode = "ticker" /\ window.cc.on /\ window.cc.pcs[t] = "idle"
  /\ Recorded(window.cc.begun) <= MaxCount
  /\ ConcStep(t, "RecordLoad",
       [window EXCEPT !.cc.pcs[t] = "add", !.cc.kind[t] = k,
                      !.cc.at[t] = window.idx,
                      !.cc.begun[k] = @ + 1])

\* Fail() or Success(): w.buckets[idx].Fail(), an atomic add
RecordAdd(t) ==
  /\ window.cc.on /\ window.cc.pcs[t] = "add"
  /\ ConcStep(t, "RecordAdd",
       [window EXCEPT !.buckets[window.cc.at[t]] =
                         BucketAdd(@, window.cc.kind[t]),
                      !.cc.pcs[t] = "idle", !.cc.kind[t] = "none",
                      !.cc.at[t] = 0,
                      !.cc.done[window.cc.kind[t]] = @ + 1])

\* Failures() or Successes(): the loop begins
SumBegin(t, k) ==
  /\ window.mode = "ticker" /\ window.cc.on /\ window.cc.pcs[t] = "idle"
  /\ ConcStep(t, "SumBegin",
       [window EXCEPT !.cc.pcs[t] = "sum", !.cc.kind[t] = k,
                      !.cc.at[t] = 1, !.cc.acc[t] = 0,
                      !.cc.lo[t] = window.cc.done[k]])

\* Failures() or Successes(): one atomic load of the loop; after the last
\* bucket, return
SumNext(t) ==
  /\ window.cc.on /\ window.cc.pcs[t] = "sum"
  /\ LET i == window.cc.at[t]
         a == window.cc.acc[t]
                + BucketCount(window.buckets[i], window.cc.kind[t])
     IN  IF i = WindowBuckets
           THEN /\ window' = [window EXCEPT
                               !.cc.pcs[t] = "idle", !.cc.kind[t] = "none",
                               !.cc.acc[t] = 0, !.cc.at[t] = 0,
                               !.cc.lo[t] = 0]
                /\ ConcReturn(t, "SumNext", window.cc.kind[t],
                              window.cc.lo[t], a)
           ELSE ConcStep(t, "SumNext",
                  [window EXCEPT !.cc.at[t] = i + 1, !.cc.acc[t] = a])

\* Run, case <-ticker.C: idx := Load(&w.bucketIdx); idx = (idx + 1) % len
RunLoad ==
  /\ window.mode = "ticker" /\ window.cc.on
  /\ window.cc.run = "wait" /\ window.tick = 1
  /\ ConcStep(0, "RunLoad",
       [window EXCEPT !.tick = 0, !.cc.run = "reset_failure",
                      !.cc.ridx = NextIdx(window.idx),
                      !.cc.rots = @ + 1])

\* Run, w.buckets[idx].Reset(): atomic.StoreInt64(&b.failure, 0)
RunResetFailure ==
  /\ window.cc.on /\ window.cc.run = "reset_failure"
  /\ ConcStep(0, "RunResetFailure",
       [window EXCEPT !.buckets[window.cc.ridx].failure = 0,
                      !.cc.run = "reset_success"])

\* Run, w.buckets[idx].Reset(): atomic.StoreInt64(&b.success, 0)
RunResetSuccess ==
  /\ window.cc.on /\ window.cc.run = "reset_success"
  /\ ConcStep(0, "RunResetSuccess",
       [window EXCEPT !.buckets[window.cc.ridx].success = 0,
                      !.cc.run = "store"])

\* Run: atomic.StoreInt64(&w.bucketIdx, idx)
RunStore ==
  /\ window.cc.on /\ window.cc.run = "store"
  /\ ConcStep(0, "RunStore",
       [window EXCEPT !.idx = window.cc.ridx, !.rot = TRUE,
                      !.cc.run = "wait", !.cc.ridx = 0])

\* the clock moves on while the goroutines use the window
ConcClock ==
  /\ window.cc.on /\ now < MaxWait
  /\ ClockAdd

Kinds2 == {"failure", "success"}

NextWindowConc ==
  \/ \E t \in Threads, k \in Kinds2 : LockedRecord(t, k)
  \/ \E t \in Threads, k \in Kinds2 : LockedSum(t, k)
  \/ \E t \in Threads, k \in Kinds2 : RecordLoad(t, k)
  \/ \E t \in Threads : RecordAdd(t)
  \/ \E t \in Threads, k \in Kinds2 : SumBegin(t, k)
  \/ \E t \in Threads : SumNext(t)
  \/ RunLoad
  \/ RunResetFailure
  \/ RunResetSuccess
  \/ RunStore
  \/ ConcClock

SpecWindowConc == InitWindowConc /\ [][NextWindowConc]_vars

\* C37: with goroutines that call Fail(), Success(), Failures() and
\* Successes() on one window at the same time, no Reset() and at most one
\* bucket moved on to, a Failures() counts every Fail() that had returned
\* when it began and none that has not begun when it returns, and likewise
\* Successes(); and the count of a bucket goes down only when the window
\* moves on to that bucket and resets it.
C37_WindowCountsConcurrent ==
  /\ [][(last'.r = "sum" /\ window'.cc.rots <= 1)
          => /\ last'.lo <= last'.res
             /\ last'.res <= window'.cc.begun[last'.k]]_vars
  /\ [][\A i \in 1..WindowBuckets :
          (\/ window'.buckets[i].failure < window.buckets[i].failure
           \/ window'.buckets[i].success < window.buckets[i].success)
            => \/ /\ last'.a \in {"RunResetFailure", "RunResetSuccess"}
                  /\ window.cc.ridx = i
               \/ /\ last'.a = "LockedRecord"
                  /\ window'.idx = i /\ window.idx # i]_vars
  /\ []((window.cc.on /\ window.cc.rots <= 1
           /\ \A t \in Threads : window.cc.pcs[t] # "add")
          => /\ WindowFailures(window) = window.cc.done["failure"]
             /\ WindowSuccesses(window) = window.cc.done["success"])

\* C37 witness: the goroutine of Run has moved the window on once, two
\* Fail() calls and one Success() call have returned, with failures in both
\* buckets, and a Failures() that summed bucket by bucket has just returned
\* 2.
C37_Witness ==
  /\ window.mode = "ticker" /\ window.cc.rots = 1
  /\ window.cc.done = [failure |-> 2, success |-> 1]
  /\ window.buckets[1].failure = 1 /\ window.buckets[2].failure = 1
  /\ last.a = "SumNext" /\ last.r = "sum"
  /\ last.k = "failure" /\ last.res = 2

====
